---- MODULE Spec2Model ----
(***************************************************************************)
(* Verification model of the Traffic Control cache-node control loop:      *)
(*   - the reconciliation agent (t3c-apply: Main and torequest.go),        *)
(*   - the parent-availability controller (tc-health-client tmagent.go),   *)
(*   - the cache polling engine (traffic_monitor/poller/cache.go),         *)
(*   - the enroller (cdn-in-a-box/enroller/enroller.go).                   *)
(* Each subsystem has its own specification; the variables of the other    *)
(* subsystems stay at their initial value under it.                        *)
(***************************************************************************)
EXTENDS Integers, Sequences, FiniteSets, TLC

(***************************************************************************)
(* Bounds of the model.                                                    *)
(***************************************************************************)
\* number of updates the orchestrator queues during one behaviour
MaxUpdates == 1
\* number of lock retries that stands for the one-minute retry cap
LockRetryLimit == 2

\* invocations of the agent on one node
Procs == {1, 2}

(***************************************************************************)
(* Program constants of the agent.                                         *)
(***************************************************************************)
ExitCodeSuccess == 0
ExitCodeAlreadyRunning == 132
ExitCodeConfigFilesError == 133
ExitCodeGeneralFailure == 135
ExitCodePackagingError == 136
ExitCodeRevalidationError == 137
ExitCodeServicesError == 138
ExitCodeSyncDSError == 139
ExitCodeUserCheckError == 140

UpdateTropsNotNeeded == "not-needed"
UpdateTropsNeeded == "needed"
UpdateTropsSuccessful == "successful"
UpdateTropsFailed == "failed"

ApplyFilesFlagAll == "all"
ApplyFilesFlagReval == "reval"

ServiceNeedsNothing == "nothing"
ServiceNeedsReload == "reload"
ServiceNeedsRestart == "restart"

\* file mode given to a generated file that is not secure (0644)
FileModeDefault == 420
\* uid and gid of the trafficserver owner, and of the user the agent runs as
AtsUid == 176
RootUid == 0

(***************************************************************************)
(* The config files of the model.  Each entry gives the path properties    *)
(* the agent's string tests look at:                                       *)
(*   remap.config            /opt/trafficserver/etc/trafficserver/         *)
(*   plugin.config           /opt/trafficserver/etc/trafficserver/         *)
(*   regex_revalidate.config /opt/trafficserver/etc/trafficserver/         *)
(***************************************************************************)
AllModeFiles == {"remap.config", "plugin.config", "regex_revalidate.config", "cdn.cer"}
RevalFiles == {"regex_revalidate.config"}
FileNames == AllModeFiles

DirIsTrafficserver(f) ==
    f \in {"remap.config", "plugin.config", "regex_revalidate.config", "cdn.cer"}

\* the files generated only for a profile that has a location for them
ProfileFiles == {"remap.config", "plugin.config"}

\* strings.HasSuffix(cfg.Name, ".cer")
IsCert(f) == f = "cdn.cer"

\* bytes of a file: a content version 0, 1, ..., or one of these two
PartialBytes == -1
AbsentBytes == -2
NoFile == [bytes |-> AbsentBytes, perm |-> 0, uid |-> 0, gid |-> 0]
FileRec(v) == [bytes |-> v, perm |-> FileModeDefault, uid |-> AtsUid, gid |-> AtsUid]

VARIABLES
    \* ---- reconciliation agent and its environment ----
    cfg,        \* command line flags of the invocations on this node
    lockHeld,   \* process holding the advisory lock /var/run/t3c.lock, 0 if free
    ops,        \* update status the orchestrator reports for this node
    desired,    \* content version the orchestrator wants for each file
    disk,       \* the file at each final path
    tmp,        \* the file at each <path>.tmp
    inv         \* per invocation: position in Main and the TrafficOpsReq fields

agentVars == <<cfg, lockHeld, ops, desired, disk, tmp, inv>>

VARIABLES
    \* ---- parent-availability controller and the ATS HostStatus subsystem ----
    hcfg,               \* c.Cfg: ReasonCode, the two thresholds, EnableActiveMarkdowns
    Parents,            \* c.Parents: the ParentStatus of each parent
    traffic_ctl_index,  \* form of the read command in use: 0 is v10, 1 is v9
    hostStatus,         \* the reason bits ATS holds for each parent
    streak,             \* polls in a row in which the monitor reported the parent unavailable
    upStreak,           \* polls in a row in which the monitor reported the parent available
    statusRead,         \* the forms of the read command the last poll ran, the one it used, the monitor's answer
    lastCmd             \* the CLI command the last poll has run for each parent

healthVars == <<hcfg, Parents, traffic_ctl_index, hostStatus, streak, upStreak, statusRead, lastCmd>>

VARIABLES
    \* ---- cache polling engine ----
    pConfig,     \* p.Config: the CachePollerConfig last applied by Poll
    killChans,   \* killChans: for each ID the poller task its kill channel belongs to, 0 if none
    tasks,       \* the poller goroutines that have not returned, by task number
    started,     \* number of poller goroutines started so far
    kills,       \* tasks whose kill channel has a goroutine blocked on its send
    pollNum,     \* the global pollNum counter
    received,    \* the calls of handler.Handle in the order they began
    reconfigs    \* number of configs Poll has received

pollerVars == <<pConfig, killChans, tasks, kills, started, pollNum, received, reconfigs>>

VARIABLES
    \* ---- enroller ----
    entities,    \* Traffic Ops: number of entities each document has created
    dirFiles,    \* per document: the unhandled file and the renamed files in its directory
    emptyCount,  \* emptyCount of the watcher goroutine, by original file name
    outcomes,    \* per document: the handler calls that reached the create request
    submissions, \* number of documents submitted so far
    events,      \* dw.Events: the Create events not yet handled, oldest first
    flags,       \* main: is -dir set (after its default), is -http set
    mainPc,      \* main: the call it is at, "dead" after a panic
    server,      \* the goroutine of server.ListenAndServe
    handleFuncs, \* per endpoint: the dispatcher entry its registered closure calls
    watched,     \* dw.watched: the types whose directory the watcher was given
    startedFile, \* does the file named by -started exist
    active,      \* the handler calls that have not returned
    requests     \* number of handler calls begun so far

frontEndVars ==
    <<flags, mainPc, server, handleFuncs, watched, startedFile, active, requests>>

documentVars == <<entities, dirFiles, emptyCount, outcomes, submissions, events>>

enrollerVars == <<documentVars, frontEndVars>>

VARIABLES
    \* ---- monitor config poller ----
    ConfigChannel,  \* p.ConfigChannel: the configs buffered in the channel
    writing,        \* the config writeConfig is called with, 0 when Poll is at its select
    iterations,     \* loop iterations the running writeConfig has finished
    published,      \* number of configs fetched so far; configs are numbered by it
    returned,       \* the config of the last writeConfig that returned
    lastRead,       \* the config the reader received last
    dropped,        \* the configs writeConfig has removed from the channel unread
    Session,        \* p.Session.Initialized()
    OpsConfig       \* p.OpsConfig.CdnName

monitorConfigVars ==
    <<ConfigChannel, writing, iterations, published, returned, lastRead, dropped,
      Session, OpsConfig>>

VARIABLES
    \* ---- state combiner (one cache) ----
    PeerOptimisticQuorumMin,  \* cfg.PeerOptimisticQuorumMin
    localStates,              \* the local observation: is the cache available
    peerStates,               \* per peer: its opinion, "stale" when it has none in date
    combinedStates            \* the combined availability

combinerVars == <<PeerOptimisticQuorumMin, localStates, peerStates, combinedStates>>

VARIABLES
    \* ---- remap.config overrides ----
    remapInput,  \* cfg.Body as generated: the lines of remap.config, each a sequence of fields
    remapBody,   \* cfg.Body
    remapErr     \* what processRemapOverrides returned: "" before the call, "nil" or "empty"

remapVars == <<remapInput, remapBody, remapErr>>

vars ==
    <<agentVars, healthVars, pollerVars, enrollerVars, monitorConfigVars, combinerVars,
      remapVars>>

\* the variables of the other subsystems
nonAgentVars ==
    <<healthVars, pollerVars, enrollerVars, monitorConfigVars, combinerVars, remapVars>>
nonHealthVars ==
    <<agentVars, pollerVars, enrollerVars, monitorConfigVars, combinerVars, remapVars>>
nonPollerVars ==
    <<agentVars, healthVars, enrollerVars, monitorConfigVars, combinerVars, remapVars>>
nonEnrollerVars ==
    <<agentVars, healthVars, pollerVars, monitorConfigVars, combinerVars, remapVars>>
nonMonitorConfigVars ==
    <<agentVars, healthVars, pollerVars, enrollerVars, combinerVars, remapVars>>
nonCombinerVars ==
    <<agentVars, healthVars, pollerVars, enrollerVars, monitorConfigVars, remapVars>>
nonRemapVars ==
    <<agentVars, healthVars, pollerVars, enrollerVars, monitorConfigVars, combinerVars>>

(***************************************************************************)
(* Reconciliation agent: pure helpers.                                     *)
(***************************************************************************)
CfgSet ==
    [Files : {ApplyFilesFlagAll, ApplyFilesFlagReval},
     ServiceAction : {"none", "reload", "restart"},
     ReportOnly : BOOLEAN,
     IgnoreUpdateFlag : BOOLEAN,
     WaitForParents : BOOLEAN,
     NoUnsetUpdateFlag : BOOLEAN,
     InstallPackages : {FALSE}]

\* the command lines of a report-only run, with and without --install-packages
ReportCfgSet ==
    [Files : {ApplyFilesFlagAll, ApplyFilesFlagReval},
     ServiceAction : {"none", "reload", "restart"},
     ReportOnly : {TRUE},
     IgnoreUpdateFlag : BOOLEAN,
     WaitForParents : BOOLEAN,
     NoUnsetUpdateFlag : BOOLEAN,
     InstallPackages : BOOLEAN]

NoRestartData ==
    [TrafficCtlReload |-> FALSE, SysCtlReload |-> FALSE,
     TrafficServerRestart |-> FALSE, RemapConfigReload |-> FALSE]

\* the classification at the end of replaceCfgFile, for the files of the model
ReplacedRestartData(f) ==
    LET remapConfigReload == f = "remap.config"
    IN  [TrafficCtlReload |-> DirIsTrafficserver(f) \/ remapConfigReload,
         SysCtlReload |-> f = "sysctl.conf",
         TrafficServerRestart |-> f = "plugin.config",
         RemapConfigReload |-> remapConfigReload]

CheckReloadRestart(data) ==
    [TrafficCtlReload |-> \E d \in data : d.rd.TrafficCtlReload,
     SysCtlReload |-> \E d \in data : d.rd.SysCtlReload,
     TrafficServerRestart |-> \E d \in data : d.rd.TrafficServerRestart,
     RemapConfigReload |-> \E d \in data : d.rd.RemapConfigReload]

\* t3c-check-reload: the sentinel printed for a list of changed paths
checkReload(changedFiles) ==
    IF \E f \in changedFiles : f = "plugin.config" THEN ServiceNeedsRestart
    ELSE IF \E f \in changedFiles : DirIsTrafficserver(f) THEN ServiceNeedsReload
    ELSE ServiceNeedsNothing

\* the files t3c-generate returns for a Files selector
GeneratedFiles(files) ==
    IF files = ApplyFilesFlagReval THEN RevalFiles
    ELSE {f \in AllModeFiles : /\ IsCert(f) => ops.Certs
                               /\ f \in ProfileFiles => f \in ops.Located}

\* t3c-diff: does the generated file differ from the file on disk
diff(body, onDisk) == body # onDisk

\* what a failed WriteFileWithOwner can leave at the temp path
PartialFiles(body) ==
    {[body EXCEPT !.bytes = PartialBytes, !.uid = RootUid, !.gid = RootUid],
     [body EXCEPT !.uid = RootUid, !.gid = RootUid]}

\* CheckRevalidateState after its early return: the status for an Ops answer o
RevalidateStatus(o, waitForParents) ==
    IF o.RevalPending
    THEN IF o.ParentRevalPending /\ waitForParents
         THEN UpdateTropsNotNeeded ELSE UpdateTropsNeeded
    ELSE UpdateTropsNotNeeded

\* an entry of r.configFiles; present = FALSE when the map has no such key
NoConfigFile ==
    [present |-> FALSE, Body |-> NoFile, ChangeNeeded |-> FALSE,
     AuditComplete |-> FALSE, ChangeApplied |-> FALSE, PreReqFailed |-> FALSE]

NewInv ==
    [pc |-> "idle", tries |-> 0, exitCode |-> -1,
     status |-> UpdateTropsNotNeeded, branch |-> "main",
     rFiles |-> cfg.Files, rWait |-> cfg.WaitForParents,
     configFiles |-> [f \in FileNames |-> NoConfigFile], todo |-> {}, cur |-> "",
     changesRequired |-> 0, pcfStatus |-> UpdateTropsNotNeeded, reData |-> {},
     changedFiles |-> {}, rd |-> NoRestartData, configFileWarnings |-> {},
     \* history of the invocation, read only by the properties
     transitions |-> {}, mmUpdated |-> FALSE, pkgActions |-> {},
     clears |-> {}, obsCfgTime |-> -1, obsRevalTime |-> -1,
     reloadFailed |-> FALSE, failBefore |-> "", failAfter |-> "", verifyFailed |-> {},
     sawPending |-> FALSE, bailed |-> FALSE,
     scheduled |-> [uninstall |-> <<>>, install |-> <<>>], pkgLog |-> <<>>]

(***************************************************************************)
(* Reconciliation agent: the environment (orchestrator).                   *)
(***************************************************************************)
\* an operator queues a config update that changes some files
QueueUpdate ==
    /\ ops.ConfigUpdateTime + ops.RevalidateUpdateTime < MaxUpdates
    /\ \E S \in (SUBSET (GeneratedFiles(ApplyFilesFlagAll) \ RevalFiles)) \ {{}},
          pp \in BOOLEAN :
          /\ desired' = [f \in FileNames |-> IF f \in S THEN desired[f] + 1 ELSE desired[f]]
          /\ ops' = [ops EXCEPT !.UpdatePending = TRUE, !.ParentPending = pp,
                                !.ConfigUpdateTime = @ + 1]
    /\ UNCHANGED <<cfg, lockHeld, disk, tmp, inv>>

\* an operator queues a revalidation
QueueReval ==
    /\ ops.ConfigUpdateTime + ops.RevalidateUpdateTime < MaxUpdates
    /\ \E pp \in BOOLEAN :
          /\ desired' = [f \in FileNames |-> IF f \in RevalFiles THEN desired[f] + 1 ELSE desired[f]]
          /\ ops' = [ops EXCEPT !.RevalPending = TRUE, !.ParentRevalPending = pp,
                                !.RevalidateUpdateTime = @ + 1]
    /\ UNCHANGED <<cfg, lockHeld, disk, tmp, inv>>

\* the parents of this node apply their updates
ParentsApplied ==
    /\ ops.ParentPending \/ ops.ParentRevalPending
    /\ ops' = [ops EXCEPT !.ParentPending = FALSE, !.ParentRevalPending = FALSE]
    /\ UNCHANGED <<cfg, lockHeld, desired, disk, tmp, inv>>

(***************************************************************************)
(* Reconciliation agent: Main and the TrafficOpsReq methods.               *)
(***************************************************************************)
\* Main returns code and the process exits, which releases its lock
Return(p, r, code) ==
    /\ inv' = [inv EXCEPT ![p] = [r EXCEPT !.pc = "done", !.exitCode = code]]
    /\ lockHeld' = IF lockHeld = p THEN 0 ELSE lockHeld

Goto(p, r, pc) ==
    /\ inv' = [inv EXCEPT ![p] = [r EXCEPT !.pc = pc]]
    /\ UNCHANGED lockHeld

\* FileLock.GetLock: a non-blocking exclusive flock on the lock file
GetLock(p) == lockHeld = 0

Start(p) ==
    /\ inv[p].pc = "idle"
    /\ Goto(p, inv[p], "lock")
    /\ UNCHANGED <<cfg, ops, desired, disk, tmp>>

\* AcquireLock gone wrong: after the last retry it runs without the lock
AcquireLock_RunUnlocked(p) ==
    /\ inv[p].pc = "lock"
    /\ IF GetLock(p)
       THEN /\ lockHeld' = p
            /\ inv' = [inv EXCEPT ![p].pc = "setup"]
       ELSE IF inv[p].tries >= LockRetryLimit
            THEN Goto(p, inv[p], "setup")
            ELSE /\ inv' = [inv EXCEPT ![p].tries = @ + 1]
                 /\ UNCHANGED lockHeld
    /\ UNCHANGED <<cfg, ops, desired, disk, tmp>>

\* AcquireLock gone wrong: it gives up at the first failed attempt
AcquireLock_GiveUpAtOnce(p) ==
    /\ inv[p].pc = "lock"
    /\ IF GetLock(p)
       THEN /\ lockHeld' = p
            /\ inv' = [inv EXCEPT ![p].pc = "setup"]
       ELSE Return(p, inv[p], ExitCodeAlreadyRunning)
    /\ UNCHANGED <<cfg, ops, desired, disk, tmp>>

\* the lock loop of Main: one iteration
AcquireLock(p) ==
    /\ inv[p].pc = "lock"
    /\ IF GetLock(p)
       THEN /\ lockHeld' = p
            /\ inv' = [inv EXCEPT ![p].pc = "setup"]
       ELSE IF inv[p].tries >= LockRetryLimit
            THEN Return(p, inv[p], ExitCodeAlreadyRunning)
            ELSE /\ inv' = [inv EXCEPT ![p].tries = @ + 1]
                 /\ UNCHANGED lockHeld
    /\ UNCHANGED <<cfg, ops, desired, disk, tmp>>

\* Main between the lock and the update check: git, TmpBase, CheckUser
Setup(p) ==
    /\ inv[p].pc = "setup"
    /\ \E r \in {"ok", "tmpDirFailed", "notRoot"} :
          CASE r = "ok" -> Goto(p, inv[p], "check")
            [] r = "tmpDirFailed" -> Return(p, inv[p], ExitCodeGeneralFailure)
            [] r = "notRoot" -> Return(p, inv[p], ExitCodeUserCheckError)
    /\ UNCHANGED <<cfg, ops, desired, disk, tmp>>

\* Main in reval mode: CheckRevalidateState(false)
CheckRevalidateState(p) ==
    /\ inv[p].pc = "check"
    /\ cfg.Files = ApplyFilesFlagReval
    /\ \E err \in BOOLEAN :
          LET st == IF cfg.ReportOnly \/ inv[p].rFiles # ApplyFilesFlagReval
                    THEN UpdateTropsNotNeeded
                    ELSE RevalidateStatus(ops, inv[p].rWait)
              r == [inv[p] EXCEPT !.status = st,
                                  !.obsRevalTime = ops.RevalidateUpdateTime]
          IN  IF err /\ ~cfg.ReportOnly
              THEN Return(p, inv[p], ExitCodeRevalidationError)
              ELSE IF st = UpdateTropsNotNeeded
                   THEN Return(p, r, ExitCodeRevalidationError)
                   ELSE Goto(p, r, "gen")
    /\ UNCHANGED <<cfg, ops, desired, disk, tmp>>

\* AfterSyncDSState gone wrong: Main goes on to the packages whatever the
\* status
AfterSyncDSState_AlwaysProceed(p, r) ==
    Goto(p, [r EXCEPT !.branch = "main"], "packages")

\* what Main does with the status CheckSyncDSState returned
AfterSyncDSState(p, r) ==
    IF ~cfg.IgnoreUpdateFlag /\ cfg.Files = ApplyFilesFlagAll /\ r.status = UpdateTropsNotNeeded
    THEN Goto(p, [r EXCEPT !.branch = "mmonly"], "mmOnly")
    ELSE Goto(p, [r EXCEPT !.branch = "main"], "packages")

\* Main in all mode: CheckSyncDSState up to its first answer from Ops
CheckSyncDSState(p) ==
    /\ inv[p].pc = "check"
    /\ cfg.Files # ApplyFilesFlagReval
    /\ \E err \in BOOLEAN :
          LET r == [inv[p] EXCEPT !.obsCfgTime = ops.ConfigUpdateTime,
                                  !.sawPending = ops.UpdatePending] IN
          IF err THEN Return(p, inv[p], ExitCodeSyncDSError)
          ELSE IF ops.UpdatePending
          THEN IF ops.ParentPending /\ inv[p].rWait /\ ~cfg.ReportOnly
               THEN Goto(p, [r EXCEPT !.status = UpdateTropsNeeded], "check2")
               ELSE AfterSyncDSState(p, [r EXCEPT !.status = UpdateTropsNeeded])
          ELSE IF ~cfg.IgnoreUpdateFlag
          THEN Goto(p, [r EXCEPT !.status = UpdateTropsNotNeeded], "rwsCheck")
          ELSE AfterSyncDSState(p, [r EXCEPT !.status = UpdateTropsNotNeeded])
    /\ UNCHANGED <<cfg, ops, desired, disk, tmp>>

\* CheckSyncDSState: the second getUpdateStatus, when the parents were pending
CheckSyncDSStateRefetch(p) ==
    /\ inv[p].pc = "check2"
    /\ \E err \in BOOLEAN :
          IF err THEN Return(p, inv[p], ExitCodeSyncDSError)
          ELSE IF ops.ParentPending \/ ops.ParentRevalPending
          THEN AfterSyncDSState(p, [inv[p] EXCEPT !.status = UpdateTropsNotNeeded,
                                                  !.obsCfgTime = ops.ConfigUpdateTime,
                                                  !.bailed = TRUE])
          ELSE AfterSyncDSState(p, [inv[p] EXCEPT !.status = UpdateTropsNeeded,
                                                  !.obsCfgTime = ops.ConfigUpdateTime])
    /\ UNCHANGED <<cfg, ops, desired, disk, tmp>>

\* RevalidateWhileSleeping up to the answer of CheckRevalidateState(true)
RevalidateWhileSleeping(p) ==
    /\ inv[p].pc = "rwsCheck"
    /\ \E err \in BOOLEAN :
          LET st == RevalidateStatus(ops, inv[p].rWait) IN
          IF err \/ st = UpdateTropsNotNeeded
          THEN AfterSyncDSState(p, [inv[p] EXCEPT !.status = UpdateTropsNotNeeded])
          ELSE Goto(p, [inv[p] EXCEPT !.branch = "sub", !.status = st,
                                      !.rFiles = ApplyFilesFlagReval, !.rWait = TRUE,
                                      !.obsRevalTime = ops.RevalidateUpdateTime], "gen")
    /\ UNCHANGED <<cfg, ops, desired, disk, tmp>>

\* the packages Ops lists for the server, in the order of the list
Packages == <<"trafficserver", "astats_over_http">>

\* what the package database answers for a package Ops lists: installed at
\* the listed version, absent, or installed at another version
PackageStates == {"installed", "absent", "otherVersion"}

\* the command of the package phase that fails, and the package it fails for
PackageOutcomes ==
    {[kind |-> k, pkg |-> ""] : k \in {"ok", "queryFailed", "serviceError"}}
        \cup {[kind |-> k, pkg |-> Packages[i]] :
                 k \in {"infoFailed", "removeFailed", "installFailed"},
                 i \in DOMAIN Packages}

\* the elements of the sequence seq
Range(seq) == {seq[i] : i \in DOMAIN seq}

\* the elements of seq a loop has gone through when it stops at x
Before(seq, x) ==
    IF x \in Range(seq)
    THEN SubSeq(seq, 1, (CHOOSE i \in DOMAIN seq : seq[i] = x) - 1)
    ELSE seq

\* ProcessPackages: the install and uninstall lists its first loop builds
ScheduledPackages(need) ==
    IF cfg.InstallPackages
    THEN [uninstall |-> SelectSeq(Packages, LAMBDA k : need[k] = "otherVersion"),
          install |-> SelectSeq(Packages, LAMBDA k : need[k] # "installed")]
    ELSE [uninstall |-> <<>>, install |-> <<>>]

Logged(action, pkgs) == [i \in DOMAIN pkgs |-> [action |-> action, pkg |-> pkgs[i]]]

\* PackageLog gone wrong: each package is removed and installed in turn
PackageLog_PerPackage(need, out) ==
    LET sched == ScheduledPackages(need)
        both == [i \in DOMAIN sched.install |->
                    IF sched.install[i] \in Range(sched.uninstall)
                    THEN Logged("uninstall", <<sched.install[i]>>)
                             \o Logged("install", <<sched.install[i]>>)
                    ELSE Logged("install", <<sched.install[i]>>)]
    IN  IF Len(both) = 0 THEN <<>>
        ELSE IF Len(both) = 1 THEN both[1]
        ELSE both[1] \o both[2]

\* ProcessPackages: the yum remove and install commands that succeed, in the
\* order they are run in, by the state of the package database and by the
\* command that fails
PackageLog(need, out) ==
    LET sched == ScheduledPackages(need) IN
    IF \/ sched.install = <<>>
       \/ out.kind = "queryFailed"
       \/ out.kind = "infoFailed" /\ out.pkg \in Range(sched.install)
    THEN <<>>
    ELSE IF out.kind = "removeFailed" /\ out.pkg \in Range(sched.uninstall)
    THEN Logged("uninstall", Before(sched.uninstall, out.pkg))
    ELSE Logged("uninstall", sched.uninstall)
             \o Logged("install",
                       IF out.kind = "installFailed"
                       THEN Before(sched.install, out.pkg) ELSE sched.install)

\* ProcessPackages: the kinds of yum action it runs
PackageActions(need, out) ==
    {PackageLog(need, out)[i].action : i \in DOMAIN PackageLog(need, out)}

\* ProcessPackages: does it return an error
PackagesError(need, out) ==
    LET sched == ScheduledPackages(need) IN
    \/ out.kind = "queryFailed"
    \/ /\ sched.install # <<>>
       /\ \/ out.kind \in {"infoFailed", "installFailed"} /\ out.pkg \in Range(sched.install)
          \/ out.kind = "removeFailed" /\ out.pkg \in Range(sched.uninstall)
          \/ cfg.ReportOnly

\* ProcessPackages and CheckSystemServices, called by Main in all mode
ProcessPackages(p) ==
    /\ inv[p].pc = "packages"
    /\ \E need \in [Range(Packages) -> PackageStates], out \in PackageOutcomes :
          LET r == [inv[p] EXCEPT !.pkgActions = @ \cup PackageActions(need, out),
                                  !.scheduled = ScheduledPackages(need),
                                  !.pkgLog = PackageLog(need, out)] IN
          IF PackagesError(need, out) THEN Return(p, r, ExitCodePackagingError)
          ELSE IF out.kind = "serviceError" THEN Return(p, r, ExitCodeServicesError)
          ELSE Goto(p, r, "gen")
    /\ UNCHANGED <<cfg, ops, desired, disk, tmp>>

\* the error return of a step of RevalidateWhileSleeping: CheckSyncDSState
\* drops it and answers UpdateTropsNotNeeded to Main
LeaveRevalidateWhileSleeping(p, r) ==
    AfterSyncDSState(p, [r EXCEPT !.status = UpdateTropsNotNeeded])

\* GetConfigFileList: run the generator and load r.configFiles
GetConfigFileList(p) ==
    /\ inv[p].pc = "gen"
    /\ \E err \in BOOLEAN :
          IF err
          THEN IF inv[p].branch = "sub"
               THEN LeaveRevalidateWhileSleeping(p, inv[p])
               ELSE Return(p, inv[p], ExitCodeConfigFilesError)
          ELSE Goto(p, [inv[p] EXCEPT !.configFiles =
                          [f \in FileNames |->
                              IF f \in GeneratedFiles(inv[p].rFiles)
                              THEN [NoConfigFile EXCEPT !.present = TRUE,
                                                        !.Body = FileRec(desired[f])]
                              ELSE NoConfigFile],
                                       !.configFileWarnings = {},
                                       !.verifyFailed = {}], "audit")
    /\ UNCHANGED <<cfg, ops, desired, disk, tmp>>

\* checkConfigFile for one file; refsOk is the verdict of checkRefs
checkConfigFile(c, f, refsOk) ==
    IF f \in {"remap.config", "plugin.config"} /\ ~refsOk
    THEN c
    ELSE [c EXCEPT !.ChangeNeeded = diff(c.Body, disk[f]), !.AuditComplete = TRUE]

\* checkConfigFile for one file: does it record a warning for the file;
\* certOk is the verdict of checkCert
checkConfigFileWarns(f, refsOk, certOk) ==
    \/ f \in {"remap.config", "plugin.config"} /\ ~refsOk
    \/ IsCert(f) /\ ~certOk

\* the files whose plugins or certificate can be found wrong
Verified == {f \in FileNames : f \in {"remap.config", "plugin.config"} \/ IsCert(f)}

\* ProcessConfigFiles: the first loop, which audits every generated file
AuditConfigFiles(p) ==
    /\ inv[p].pc = "audit"
    /\ \E bad \in SUBSET {f \in Verified : inv[p].configFiles[f].present} :
          Goto(p, [inv[p] EXCEPT
                     !.configFiles = [f \in FileNames |->
                         IF inv[p].configFiles[f].present
                         THEN checkConfigFile(inv[p].configFiles[f], f, f \notin bad)
                         ELSE NoConfigFile],
                     !.configFileWarnings =
                         @ \cup {f \in FileNames :
                                    /\ inv[p].configFiles[f].present
                                    /\ checkConfigFileWarns(f, f \notin bad, f \notin bad)},
                     !.verifyFailed = bad,
                     !.todo = {f \in FileNames : inv[p].configFiles[f].present},
                     !.changesRequired = 0,
                     !.pcfStatus = UpdateTropsNotNeeded,
                     !.reData = {}], "apply")
    /\ UNCHANGED <<cfg, ops, desired, disk, tmp>>

\* the file the cross-file veto of ProcessConfigFiles looks up for f
VetoPartner(f) ==
    IF f = "plugin.config" THEN "remap.config"
    ELSE IF f = "remap.config" THEN "plugin.config" ELSE ""

\* ProcessConfigFiles: one iteration of the second loop, up to the call
\* of replaceCfgFile and through its ReportOnly return
ApplyConfigFile(p) ==
    /\ inv[p].pc = "apply"
    /\ \E f \in inv[p].todo :
          LET c == inv[p].configFiles[f]
              r == [inv[p] EXCEPT !.todo = @ \ {f}]
              rq == [r EXCEPT !.changesRequired = @ + 1]
          IN  IF ~(c.ChangeNeeded /\ ~c.ChangeApplied /\ c.AuditComplete /\ ~c.PreReqFailed)
              THEN Goto(p, r, "apply")
              ELSE IF VetoPartner(f) # "" /\ ~inv[p].configFiles[VetoPartner(f)].present
              THEN \* nil map entry dereferenced: panic, recovered by LogPanic
                   Return(p, rq, ExitCodeGeneralFailure)
              ELSE IF VetoPartner(f) # "" /\ inv[p].configFiles[VetoPartner(f)].PreReqFailed
              THEN Goto(p, [rq EXCEPT !.pcfStatus = UpdateTropsFailed], "apply")
              ELSE IF cfg.ReportOnly
              THEN Goto(p, [rq EXCEPT !.reData = @ \cup {[Name |-> f, rd |-> NoRestartData]}],
                        "apply")
              ELSE Goto(p, [rq EXCEPT !.cur = f], "write")
    /\ UNCHANGED <<cfg, ops, desired, disk, tmp>>

\* WriteTempFile gone wrong: the file is written at its final path
WriteTempFile_InPlace(p) ==
    /\ inv[p].pc = "write"
    /\ LET f == inv[p].cur
           body == inv[p].configFiles[f].Body
       IN  \/ /\ disk' = [disk EXCEPT ![f] = body]
              /\ Goto(p, inv[p], "rename")
           \/ \E left \in PartialFiles(body) :
                /\ disk' = [disk EXCEPT ![f] = left]
                /\ Goto(p, [inv[p] EXCEPT !.cur = "",
                                !.reData = @ \cup {[Name |-> f, rd |-> NoRestartData]}],
                        "apply")
    /\ UNCHANGED <<cfg, ops, desired, tmp>>

\* replaceCfgFile: WriteFileWithOwner to <path>.tmp
WriteTempFile(p) ==
    /\ inv[p].pc = "write"
    /\ LET f == inv[p].cur
           body == inv[p].configFiles[f].Body
       IN  \/ /\ tmp' = [tmp EXCEPT ![f] = body]
              /\ Goto(p, inv[p], "rename")
           \/ \E left \in PartialFiles(body) :
                /\ tmp' = [tmp EXCEPT ![f] = left]
                /\ Goto(p, [inv[p] EXCEPT !.cur = "",
                                !.reData = @ \cup {[Name |-> f, rd |-> NoRestartData]}],
                        "apply")
    /\ UNCHANGED <<cfg, ops, desired, disk>>

\* replaceCfgFile: os.Rename of the temp file over the final path, and the
\* classification of the replaced file
RenameTempFile(p) ==
    /\ inv[p].pc = "rename"
    /\ LET f == inv[p].cur IN
           \/ /\ disk' = [disk EXCEPT ![f] = tmp[f]]
              /\ tmp' = [tmp EXCEPT ![f] = NoFile]
              /\ Goto(p, [inv[p] EXCEPT !.cur = "",
                                !.configFiles[f].ChangeApplied = TRUE,
                                !.changedFiles = @ \cup {f},
                                !.reData = @ \cup {[Name |-> f, rd |-> ReplacedRestartData(f)]}],
                      "apply")
           \/ /\ UNCHANGED <<disk, tmp>>
              /\ Goto(p, [inv[p] EXCEPT !.cur = "",
                                !.reData = @ \cup {[Name |-> f, rd |-> NoRestartData]}],
                      "apply")
    /\ UNCHANGED <<cfg, ops, desired>>

\* ProcessConfigFiles after the second loop
FinishConfigFiles(p) ==
    /\ inv[p].pc = "apply"
    /\ inv[p].todo = {}
    /\ LET st == IF inv[p].pcfStatus # UpdateTropsFailed /\ inv[p].changesRequired > 0
                 THEN UpdateTropsNeeded ELSE inv[p].pcfStatus
           r == [inv[p] EXCEPT !.rd = CheckReloadRestart(inv[p].reData), !.status = st]
       IN  Goto(p, r, IF inv[p].branch = "sub" THEN "services" ELSE "maxmind")
    /\ UNCHANGED <<cfg, ops, desired, disk, tmp>>

\* CheckMaxmindUpdate: TRUE only with a maxmind location and a new database
CheckMaxmindUpdate(updated) == updated

\* Main after ProcessConfigFiles: the maxmind check and the touch of remap.config
MaxmindCheck(p) ==
    /\ inv[p].pc = "maxmind"
    /\ \E updated \in BOOLEAN :
          LET mm == CheckMaxmindUpdate(updated)
              r == [inv[p] EXCEPT !.rd.RemapConfigReload = @ \/ mm,
                                  !.mmUpdated = @ \/ mm]
          IN  IF r.rd.RemapConfigReload /\ ~inv[p].configFiles["remap.config"].present
              THEN \* GetConfigFile answered nil and Main reads cfg.Path: panic
                   Return(p, r, ExitCodeGeneralFailure)
              ELSE Goto(p, r, "services")
    /\ UNCHANGED <<cfg, ops, desired, disk, tmp>>

\* Main when no update is pending: only the maxmind database is checked
MaxmindOnly(p) ==
    /\ inv[p].pc = "mmOnly"
    /\ \E updated \in BOOLEAN :
          IF CheckMaxmindUpdate(updated)
          THEN Goto(p, [inv[p] EXCEPT !.rd.RemapConfigReload = TRUE, !.mmUpdated = TRUE],
                    "services")
          ELSE Return(p, inv[p], ExitCodeSuccess)
    /\ UNCHANGED <<cfg, ops, desired, disk, tmp>>

\* ServiceNeeds gone wrong: a reload is asked for whether or not a file changed
ServiceNeeds_AlwaysReload(r) ==
    IF cfg.ServiceAction = "restart" THEN ServiceNeedsRestart ELSE ServiceNeedsReload

\* StartServices: what the service needs, from the service action, the
\* sentinel of t3c-check-reload and the agent's own reload flags
ServiceNeeds(r) ==
    LET fromFiles == IF cfg.ServiceAction = "restart"
                     THEN ServiceNeedsRestart ELSE checkReload(r.changedFiles)
    IN  IF fromFiles = ServiceNeedsNothing /\ (r.rd.TrafficCtlReload \/ r.rd.RemapConfigReload)
        THEN ServiceNeedsReload ELSE fromFiles

Succeed(st) == IF st = UpdateTropsNeeded THEN UpdateTropsSuccessful ELSE st

\* what the files the invocation replaced ask of ATS: the sentinel of
\* t3c-check-reload, or a reload for the agent's own reload flags
RequiredTransition(r) ==
    IF checkReload(r.changedFiles) = ServiceNeedsNothing
       /\ (r.rd.TrafficCtlReload \/ r.rd.RemapConfigReload)
    THEN ServiceNeedsReload ELSE checkReload(r.changedFiles)

\* the invocation has put ATS through what its files ask for; a restart or
\* a start serves for a reload
TransitionPerformed(r) ==
    CASE RequiredTransition(r) = ServiceNeedsRestart ->
             r.transitions \cap {"restart", "start"} # {}
      [] RequiredTransition(r) = ServiceNeedsReload ->
             r.transitions \cap {"reload", "restart", "start"} # {}
      [] OTHER -> TRUE

\* StartServicesResult gone wrong: a failed reload is taken for a success
StartServicesResult_IgnoreReloadError(r, out) ==
    LET needs == ServiceNeeds(r) IN
    IF out = "checkFailed" THEN [r |-> r, err |-> TRUE]
    ELSE IF cfg.ReportOnly THEN [r |-> r, err |-> FALSE]
    ELSE IF cfg.ServiceAction = "restart"
    THEN IF out = "cmdFailed" THEN [r |-> r, err |-> TRUE]
         ELSE [r |-> [r EXCEPT !.transitions = @ \cup {IF out = "okStopped" THEN "start" ELSE "restart"},
                               !.status = Succeed(@)],
               err |-> FALSE]
    ELSE IF cfg.ServiceAction = "reload"
    THEN IF needs = ServiceNeedsReload /\ out = "cmdFailed"
         THEN [r |-> [r EXCEPT !.status = Succeed(@), !.reloadFailed = TRUE,
                               !.failBefore = r.status, !.failAfter = Succeed(r.status)],
               err |-> FALSE]
         ELSE IF needs = ServiceNeedsReload
         THEN [r |-> [r EXCEPT !.transitions = @ \cup {"reload"}, !.status = Succeed(@)],
               err |-> FALSE]
         ELSE [r |-> [r EXCEPT !.status = Succeed(@)], err |-> FALSE]
    ELSE [r |-> r, err |-> FALSE]

\* StartServices with every external command succeeding or failing as out says:
\* the record of the invocation after it, and whether it returned an error
StartServicesResult(r, out) ==
    LET needs == ServiceNeeds(r) IN
    IF out = "checkFailed" THEN [r |-> r, err |-> TRUE]
    ELSE IF cfg.ReportOnly THEN [r |-> r, err |-> FALSE]
    ELSE IF cfg.ServiceAction = "restart"
    THEN IF out = "cmdFailed" THEN [r |-> r, err |-> TRUE]
         ELSE [r |-> [r EXCEPT !.transitions = @ \cup {IF out = "okStopped" THEN "start" ELSE "restart"},
                               !.status = Succeed(@)],
               err |-> FALSE]
    ELSE IF cfg.ServiceAction = "reload"
    THEN IF needs = ServiceNeedsRestart
         THEN [r |-> [r EXCEPT !.status = Succeed(@)], err |-> FALSE]
         ELSE IF needs = ServiceNeedsReload
         THEN IF out = "cmdFailed"
              THEN LET st == IF r.status = UpdateTropsNeeded
                                 THEN UpdateTropsFailed ELSE r.status
                   IN  [r |-> [r EXCEPT !.status = st, !.reloadFailed = TRUE,
                                        !.failBefore = r.status, !.failAfter = st],
                        err |-> TRUE]
              ELSE [r |-> [r EXCEPT !.transitions = @ \cup {"reload"}, !.status = Succeed(@)],
                    err |-> FALSE]
         ELSE [r |-> [r EXCEPT !.status = Succeed(@)], err |-> FALSE]
    ELSE [r |-> r, err |-> FALSE]

StartServices(p) ==
    /\ inv[p].pc = "services"
    /\ \E out \in {"ok", "okStopped", "checkFailed", "cmdFailed"} :
          LET res == StartServicesResult(inv[p], out) IN
          CASE inv[p].branch = "main" ->
                 IF res.err THEN Return(p, res.r, ExitCodeServicesError)
                 ELSE Goto(p, res.r, "report")
            [] inv[p].branch = "mmonly" ->
                 IF res.err THEN Return(p, res.r, ExitCodeServicesError)
                 ELSE Return(p, res.r, ExitCodeSuccess)
            [] inv[p].branch = "sub" ->
                 IF res.err THEN LeaveRevalidateWhileSleeping(p, res.r)
                 ELSE Goto(p, res.r, "report")
    /\ UNCHANGED <<cfg, ops, desired, disk, tmp>>

\* the orchestrator handling a clear request: the pending flag falls unless
\* an update was queued after the time the request carries
sendUpdate(o, files, time) ==
    IF files = ApplyFilesFlagAll
    THEN [o EXCEPT !.UpdatePending = @ /\ time < o.ConfigUpdateTime]
    ELSE [o EXCEPT !.RevalPending = @ /\ time < o.RevalidateUpdateTime]

\* performUpdate gone wrong: not-needed clears whatever Ops answered
performUpdate_ClearAlways(st, serverStatus) ==
    st \in {UpdateTropsNotNeeded, UpdateTropsSuccessful}

\* UpdateTrafficOps: is performUpdate set for this status and Ops answer
performUpdate(st, serverStatus) ==
    \/ st = UpdateTropsNotNeeded /\ (serverStatus.UpdatePending \/ serverStatus.RevalPending)
    \/ st = UpdateTropsSuccessful

\* the update time UpdateTrafficOps puts in the request
SentUpdateTime(r, serverStatus) ==
    IF r.rFiles = ApplyFilesFlagAll
    THEN serverStatus.ConfigUpdateTime ELSE serverStatus.RevalidateUpdateTime

\* Main, or RevalidateWhileSleeping, after UpdateTrafficOps returned
AfterUpdateTrafficOps(p, r) ==
    IF r.branch = "sub"
    THEN LeaveRevalidateWhileSleeping(p, [r EXCEPT !.rd.TrafficCtlReload = FALSE])
    ELSE Return(p, r, ExitCodeSuccess)

UpdateTrafficOps(p) ==
    /\ inv[p].pc = "report"
    /\ \E out \in {"ok", "fetchFailed", "sendFailed"} :
          LET serverStatus == ops
              r == inv[p]
              send == /\ out # "fetchFailed"
                      /\ performUpdate(r.status, serverStatus)
                      /\ ~cfg.ReportOnly
                      /\ ~cfg.NoUnsetUpdateFlag
              t == SentUpdateTime(r, serverStatus)
          IN  IF send /\ out = "ok"
              THEN /\ ops' = sendUpdate(ops, r.rFiles, t)
                   /\ AfterUpdateTrafficOps(p,
                         [r EXCEPT !.clears = @ \cup {[files |-> r.rFiles, time |-> t,
                                                       status |-> r.status,
                                                       pending |-> serverStatus.UpdatePending
                                                                   \/ serverStatus.RevalPending]}])
              ELSE /\ UNCHANGED ops
                   /\ AfterUpdateTrafficOps(p, r)
    /\ UNCHANGED <<cfg, desired, disk, tmp>>

(***************************************************************************)
(* Parent-availability controller.  The configuration is the one loaded at *)
(* start; the parents are those of parent.config and strategies.yaml.      *)
(***************************************************************************)
\* largest poll threshold of the configurations explored
MaxThreshold == 2

Hosts == {"parent-01", "parent-02"}

ReasonCodes == {"active", "local", "manual"}

HealthCfgSet ==
    [ReasonCode : ReasonCodes,
     UnavailablePollThreshold : 1..MaxThreshold,
     MarkUpPollThreshold : 1..MaxThreshold,
     EnableActiveMarkdowns : BOOLEAN]

AllReasonsUp == [active |-> TRUE, local |-> TRUE, manual |-> TRUE]

\* the ParentStatus readParentConfig creates for a parent
NewParentStatus ==
    [ActiveReason |-> TRUE, LocalReason |-> TRUE, ManualReason |-> TRUE,
     UnavailablePollCount |-> 0, MarkUpPollCount |-> 0]

available(pv, reasonCode) ==
    CASE reasonCode = "active" -> pv.ActiveReason
      [] reasonCode = "local" -> pv.LocalReason
      [] reasonCode = "manual" -> pv.ManualReason
      [] OTHER -> FALSE

\* traffic_ctl host up|down --reason <ReasonCode> <fqdn>, when it succeeds
execTrafficCtl(hs, up) == [hs EXCEPT ![hcfg.ReasonCode] = up]

\* markParent gone wrong: the counters are saved although traffic_ctl failed
markParent_SaveOnError(pv, hs, tmAvailable, cmdOk) ==
    LET unavailablePollCount == pv.UnavailablePollCount + (IF tmAvailable THEN 0 ELSE 1)
        markUpPollCount == pv.MarkUpPollCount + (IF tmAvailable THEN 1 ELSE 0)
        below == IF tmAvailable
                 THEN markUpPollCount < hcfg.MarkUpPollThreshold
                 ELSE unavailablePollCount < hcfg.UnavailablePollThreshold
        hostAvailable == IF below THEN ~tmAvailable ELSE tmAvailable
        save(u, m) ==
            [pv EXCEPT !.ActiveReason = IF hcfg.ReasonCode = "active" THEN hostAvailable ELSE @,
                       !.LocalReason = IF hcfg.ReasonCode = "local" THEN hostAvailable ELSE @,
                       !.UnavailablePollCount = u,
                       !.MarkUpPollCount = m]
    IN  IF below
        THEN [pv |-> save(unavailablePollCount, markUpPollCount), hs |-> hs, cmd |-> "none"]
        ELSE IF cmdOk
        THEN [pv |-> save(0, 0), hs |-> execTrafficCtl(hs, tmAvailable),
              cmd |-> IF tmAvailable THEN "up" ELSE "down"]
        ELSE [pv |-> [pv EXCEPT !.UnavailablePollCount = unavailablePollCount,
                                !.MarkUpPollCount = markUpPollCount],
              hs |-> hs, cmd |-> "failed"]

\* markParent for one parent: the entry saved, the host status ATS holds
\* after it and the command run; cmdOk tells whether traffic_ctl succeeds
markParent(pv, hs, tmAvailable, cmdOk) ==
    LET unavailablePollCount == pv.UnavailablePollCount + (IF tmAvailable THEN 0 ELSE 1)
        markUpPollCount == pv.MarkUpPollCount + (IF tmAvailable THEN 1 ELSE 0)
        below == IF tmAvailable
                 THEN markUpPollCount < hcfg.MarkUpPollThreshold
                 ELSE unavailablePollCount < hcfg.UnavailablePollThreshold
        hostAvailable == IF below THEN ~tmAvailable ELSE tmAvailable
        save(u, m) ==
            [pv EXCEPT !.ActiveReason = IF hcfg.ReasonCode = "active" THEN hostAvailable ELSE @,
                       !.LocalReason = IF hcfg.ReasonCode = "local" THEN hostAvailable ELSE @,
                       !.UnavailablePollCount = u,
                       !.MarkUpPollCount = m]
    IN  IF below
        THEN [pv |-> save(unavailablePollCount, markUpPollCount), hs |-> hs, cmd |-> "none"]
        ELSE IF cmdOk
        THEN [pv |-> save(0, 0), hs |-> execTrafficCtl(hs, tmAvailable),
              cmd |-> IF tmAvailable THEN "up" ELSE "down"]
        ELSE [pv |-> pv, hs |-> hs, cmd |-> "failed"]

\* PollParent gone wrong: an available poll does not clear UnavailablePollCount
PollParent_NoReset(cs, hs, tmAvailable, cmdOk) ==
    IF available(cs, hcfg.ReasonCode) = tmAvailable
    THEN [pv |-> cs, hs |-> hs, cmd |-> "none"]
    ELSE IF ~hcfg.EnableActiveMarkdowns /\ ~tmAvailable
    THEN [pv |-> cs, hs |-> hs, cmd |-> "logged"]
    ELSE markParent(cs, hs, tmAvailable, cmdOk)

\* PollParent gone wrong: the parent is marked down although the
\* configuration disables mark downs
PollParent_MarkDownAnyway(cs, hs, tmAvailable, cmdOk) ==
    LET marked == IF available(cs, hcfg.ReasonCode) = tmAvailable
                  THEN [pv |-> cs, hs |-> hs, cmd |-> "none"]
                  ELSE markParent(cs, hs, tmAvailable, cmdOk)
    IN  IF available(cs, hcfg.ReasonCode) /\ tmAvailable /\ cs.UnavailablePollCount > 0
        THEN [marked EXCEPT !.pv = [cs EXCEPT !.UnavailablePollCount = 0]]
        ELSE marked

\* the body of the loop over the monitor's cache states, for one parent the
\* monitor has an opinion on; cmd is "logged" when the mark down is only
\* written to the log
PollParent(cs, hs, tmAvailable, cmdOk) ==
    LET marked == IF available(cs, hcfg.ReasonCode) = tmAvailable
                  THEN [pv |-> cs, hs |-> hs, cmd |-> "none"]
                  ELSE IF ~hcfg.EnableActiveMarkdowns /\ ~tmAvailable
                  THEN [pv |-> cs, hs |-> hs, cmd |-> "logged"]
                  ELSE markParent(cs, hs, tmAvailable, cmdOk)
    IN  IF available(cs, hcfg.ReasonCode) /\ tmAvailable /\ cs.UnavailablePollCount > 0
        THEN [marked EXCEPT !.pv = [cs EXCEPT !.UnavailablePollCount = 0]]
        ELSE marked

\* readHostStatus for one parent whose line reads hs: the entry is replaced
\* only when the availability changed, and keeps its counters
readHostStatus(pv, hs) ==
    LET pstat == [ActiveReason |-> hs.active, LocalReason |-> hs.local,
                  ManualReason |-> hs.manual,
                  UnavailablePollCount |-> pv.UnavailablePollCount,
                  MarkUpPollCount |-> pv.MarkUpPollCount]
    IN  IF available(pv, hcfg.ReasonCode) # available(pstat, hcfg.ReasonCode)
        THEN pstat ELSE pv

\* no poll has read the host status yet
NoRead == [tried |-> {}, form |-> 2, tmOk |-> FALSE]

\* the form readHostStatus ends up using, 2 if both the forms it tried failed
UsedForm(v10Ok, v9Ok) ==
    IF traffic_ctl_index = 0 /\ v10Ok THEN 0
    ELSE IF v9Ok THEN 1 ELSE 2

\* the entries of the Parents table after the poll's read of the host
\* status, which used the form given or failed (form 2)
AfterRead(form) ==
    [h \in Hosts |-> IF form = 2 THEN Parents[h]
                     ELSE readHostStatus(Parents[h], hostStatus[h])]

\* what one poll meets: whether each form of the read command works,
\* whether the monitor answered, its opinion on each parent, and whether
\* traffic_ctl host up|down works for a parent.  A command the poll does not
\* run is given one outcome: the v10 form after the downgrade, the v9 form
\* when the v10 form works, up|down for a parent the poll does not mark.
PollInputs ==
    {in \in [v10Ok : BOOLEAN, v9Ok : BOOLEAN, tmOk : BOOLEAN,
             report : [Hosts -> {"available", "unavailable", "none"}],
             cmdOk : [Hosts -> BOOLEAN]] :
        /\ traffic_ctl_index # 0 => ~in.v10Ok
        /\ in.v10Ok => in.v9Ok
        /\ ~in.tmOk => \A h \in Hosts : in.report[h] = "none"
        /\ \A h \in Hosts :
              ~in.cmdOk[h] =>
                  /\ in.report[h] # "none"
                  /\ PollParent(AfterRead(UsedForm(in.v10Ok, in.v9Ok))[h], hostStatus[h],
                                in.report[h] = "available", TRUE).cmd \in {"up", "down"}}

\* readHostStatus gone wrong: no second command after the v10 form failed
TriedForms_NoFallback(v10Ok) ==
    IF traffic_ctl_index # 0 THEN {1} ELSE {0}

\* the forms of the read command readHostStatus runs
TriedForms(v10Ok) ==
    IF traffic_ctl_index # 0 THEN {1}
    ELSE IF v10Ok THEN {0} ELSE {0, 1}

\* one iteration of the loop of PollAndUpdateCacheStatus on the inputs in
PollStep(in) ==
    LET read == AfterRead(UsedForm(in.v10Ok, in.v9Ok))
        res == [h \in Hosts |->
                    IF in.tmOk /\ in.report[h] # "none"
                    THEN PollParent(read[h], hostStatus[h],
                                    in.report[h] = "available", in.cmdOk[h])
                    ELSE [pv |-> read[h], hs |-> hostStatus[h], cmd |-> "none"]]
    IN  /\ traffic_ctl_index' = IF traffic_ctl_index = 0 /\ ~in.v10Ok THEN 1
                                ELSE traffic_ctl_index
        /\ Parents' = [h \in Hosts |-> res[h].pv]
        /\ hostStatus' = [h \in Hosts |-> res[h].hs]
        /\ lastCmd' = [h \in Hosts |-> res[h].cmd]
        /\ streak' = [h \in Hosts |->
                         IF ~in.tmOk \/ in.report[h] = "none" THEN streak[h]
                         ELSE IF in.report[h] = "available" THEN 0
                         ELSE IF streak[h] < MaxThreshold THEN streak[h] + 1
                         ELSE streak[h]]
        /\ UNCHANGED hcfg

PollAndUpdateCacheStatus ==
    \E in \in PollInputs : PollStep(in) /\ UNCHANGED <<upStreak, statusRead>>

\* the same iteration, the available reports counted
PollCounted ==
    \E in \in PollInputs :
        /\ PollStep(in)
        /\ upStreak' = [h \in Hosts |->
                           IF ~in.tmOk \/ in.report[h] = "none" THEN upStreak[h]
                           ELSE IF in.report[h] = "unavailable" THEN 0
                           ELSE IF upStreak[h] < MaxThreshold THEN upStreak[h] + 1
                           ELSE upStreak[h]]
        /\ UNCHANGED statusRead

\* the same iteration, the commands of its read and the monitor's answer
\* written down
PollLogged ==
    \E in \in PollInputs :
        /\ PollStep(in)
        /\ statusRead' = [tried |-> TriedForms(in.v10Ok),
                          form |-> UsedForm(in.v10Ok, in.v9Ok),
                          tmOk |-> in.tmOk]
        /\ UNCHANGED upStreak

StartHealth ==
    /\ hcfg \in HealthCfgSet
    /\ Parents = [h \in Hosts |-> NewParentStatus]
    /\ traffic_ctl_index = 0
    /\ hostStatus = [h \in Hosts |-> AllReasonsUp]
    /\ streak = [h \in Hosts |-> 0]
    /\ upStreak = [h \in Hosts |-> 0]
    /\ statusRead = NoRead
    /\ lastCmd = [h \in Hosts |-> "none"]

\* the state of the controller while the other subsystems are looked at
IdleHealth ==
    /\ hcfg = [ReasonCode |-> "active", UnavailablePollThreshold |-> 1,
               MarkUpPollThreshold |-> 1, EnableActiveMarkdowns |-> TRUE]
    /\ Parents = [h \in Hosts |-> NewParentStatus]
    /\ traffic_ctl_index = 0
    /\ hostStatus = [h \in Hosts |-> AllReasonsUp]
    /\ streak = [h \in Hosts |-> 0]
    /\ upStreak = [h \in Hosts |-> 0]
    /\ statusRead = NoRead
    /\ lastCmd = [h \in Hosts |-> "none"]

(***************************************************************************)
(* Cache polling engine.                                                   *)
(***************************************************************************)
\* number of configs received plus polls begun in one behaviour
MaxEvents == 4

ProbeIDs == {"cache-a", "cache-b"}

\* position of an ID in the order the additions are started in
IDOrder == [id \in ProbeIDs |-> IF id = "cache-a" THEN 1 ELSE 2]

\* a PollConfig; present = FALSE stands for an ID the Urls map does not hold
NoPollConfig == [present |-> FALSE, URL |-> "", URLv6 |-> ""]

PollConfigs ==
    {[present |-> TRUE, URL |-> "http://v4/_astats", URLv6 |-> "http://v6/_astats"],
     [present |-> TRUE, URL |-> "http://v4/_astats", URLv6 |-> ""]}

PollingProtocols == {"both", "ipv4only"}

Intervals == {5, 6}

\* the PollConfigs the monitoring config holds for an ID
PollConfigsOf(id) ==
    IF id = "cache-a" THEN PollConfigs
    ELSE {pc \in PollConfigs : pc.URLv6 # ""}

CachePollerConfigs ==
    {c \in [Urls : [ProbeIDs -> PollConfigs \cup {NoPollConfig}],
            Interval : Intervals,
            NoKeepAlive : BOOLEAN,
            PollingProtocol : PollingProtocols] :
        /\ \A id \in ProbeIDs : c.Urls[id].present => c.Urls[id] \in PollConfigsOf(id)
        /\ c.NoKeepAlive => c.Interval = 5}

\* the Config NewCache builds
NewCache(proto) ==
    [Urls |-> [id \in ProbeIDs |-> NoPollConfig], Interval |-> 0,
     NoKeepAlive |-> FALSE, PollingProtocol |-> proto]

\* the number of settings two configs differ in
Changes(old, new) ==
    Cardinality({id \in ProbeIDs : old.Urls[id] # new.Urls[id]})
        + (IF old.Interval # new.Interval THEN 1 ELSE 0)
        + (IF old.NoKeepAlive # new.NoKeepAlive THEN 1 ELSE 0)
        + (IF old.PollingProtocol # new.PollingProtocol THEN 1 ELSE 0)

\* the configs the manager sends next: first a config with the interval and
\* the keep-alive setting of the default profile, and from then on the
\* config it sent last with at most one setting changed
NextConfigs ==
    IF reconfigs = 0
    THEN {c \in CachePollerConfigs : c.Interval = 5 /\ ~c.NoKeepAlive}
    ELSE {c \in CachePollerConfigs : Changes(pConfig, c) <= 1}

UrlIDs(c) == {id \in ProbeIDs : c.Urls[id].present}

CachePollInfo(new, id) ==
    [ID |-> id, Interval |-> new.Interval, NoKeepAlive |-> new.NoKeepAlive,
     PollingProtocol |-> new.PollingProtocol, PollConfig |-> new.Urls[id]]

diffConfigs_AlwaysTeardown(old, new) ==
    [deletions |-> UrlIDs(old), additions |-> UrlIDs(new)]

diffConfigs(old, new) ==
    IF old.Interval # new.Interval \/ old.NoKeepAlive # new.NoKeepAlive
    THEN [deletions |-> UrlIDs(old), additions |-> UrlIDs(new)]
    ELSE [deletions |-> {id \in UrlIDs(old) :
                            id \notin UrlIDs(new) \/ new.Urls[id] # old.Urls[id]},
          additions |-> {id \in UrlIDs(new) :
                            id \notin UrlIDs(old) \/ new.Urls[id] # old.Urls[id]}]

\* the task number the poller started for an addition gets
TaskNumber(additions, id) ==
    started + Cardinality({j \in additions : IDOrder[j] <= IDOrder[id]})

\* the state of a poller goroutine when it enters its loop; the sleep of
\* pollSpread before it is a delay in which the goroutine does nothing
NewPoller(info) ==
    [info |-> info, st |-> "select",
     usingIPv4 |-> info.PollingProtocol # "ipv6only", pollID |-> 0,
     failed |-> FALSE]

\* CachePoller.Poll: the body of its loop for the config newConfig
PollConfig(newConfig) ==
    /\ reconfigs + pollNum < MaxEvents
    /\ LET d == diffConfigs(pConfig, newConfig)
           killed == {killChans[id] : id \in d.deletions}
           new == {TaskNumber(d.additions, id) : id \in d.additions}
       IN  /\ kills' = kills \cup killed
           /\ killChans' = [id \in ProbeIDs |->
                               IF id \in d.additions THEN TaskNumber(d.additions, id)
                               ELSE IF id \in d.deletions THEN 0
                               ELSE killChans[id]]
           /\ tasks' = [t \in DOMAIN tasks \cup new |->
                           IF t \in new
                           THEN NewPoller(CachePollInfo(newConfig,
                                    CHOOSE id \in d.additions :
                                        TaskNumber(d.additions, id) = t))
                           ELSE tasks[t]]
           /\ started' = started + Cardinality(d.additions)
           /\ pConfig' = newConfig
    /\ reconfigs' = reconfigs + 1
    /\ UNCHANGED <<pollNum, received>>

\* CachePoller.Poll: one config received from ConfigChannel
Poll ==
    /\ reconfigs + pollNum < MaxEvents
    /\ \E newConfig \in NextConfigs : PollConfig(newConfig)

\* Poll for the configs of a monitor whose profile stays as it is: only the
\* set of caches and their URLs change
PollUrls ==
    /\ reconfigs + pollNum < MaxEvents
    /\ \E newConfig \in {c \in NextConfigs : /\ c.Interval = 5 /\ ~c.NoKeepAlive
                                             /\ c.PollingProtocol = pConfig.PollingProtocol} :
          PollConfig(newConfig)

\* poller: case <-tick.C, up to the call of pollFunc
Tick(t) ==
    /\ tasks[t].st = "select"
    /\ LET p == tasks[t]
           url == p.info.PollConfig.URL
           url6 == p.info.PollConfig.URLv6
       IN  IF (p.usingIPv4 /\ url = "") \/ (~p.usingIPv4 /\ url6 = "")
           THEN /\ tasks' = [tasks EXCEPT ![t].usingIPv4 = ~@]
                /\ UNCHANGED pollNum
           ELSE /\ reconfigs + pollNum < MaxEvents
                /\ pollNum' = pollNum + 1
                /\ tasks' = [tasks EXCEPT ![t].st = "polling", ![t].pollID = pollNum + 1]
    /\ UNCHANGED <<pConfig, killChans, kills, started, received, reconfigs>>

\* what the request of httpPoll can end in
PollOutcomes == {"ok", "fetch error", "bad HTTP status"}

\* httpPoll: TRUE iff the error it returns is not nil
httpPoll(outcome) == outcome # "ok"

Dispatch_ExitOnError(t) ==
    /\ tasks[t].st = "polling"
    /\ received' = Append(received, [id |-> tasks[t].info.ID, task |-> t,
                                      pollID |-> tasks[t].pollID,
                                      usingIPv4 |-> tasks[t].usingIPv4])
    /\ \E outcome \in PollOutcomes :
          IF httpPoll(outcome)
          THEN tasks' = [u \in DOMAIN tasks \ {t} |-> tasks[u]]
          ELSE tasks' = [tasks EXCEPT ![t].st = "handling",
                              ![t].usingIPv4 = IF tasks[t].info.PollingProtocol = "both"
                                               THEN ~@ ELSE @]
    /\ UNCHANGED <<pConfig, killChans, kills, started, pollNum, reconfigs>>

\* Dispatch gone wrong: the loop does not wait for pollFinishedChan
Dispatch_NoWait(t) ==
    /\ tasks[t].st = "polling"
    /\ received' = Append(received, [id |-> tasks[t].info.ID, task |-> t,
                                      pollID |-> tasks[t].pollID,
                                      usingIPv4 |-> tasks[t].usingIPv4])
    /\ \E outcome \in PollOutcomes :
          tasks' = [tasks EXCEPT ![t].st = "select",
                              ![t].failed = @ \/ httpPoll(outcome),
                              ![t].usingIPv4 = IF tasks[t].info.PollingProtocol = "both"
                                               THEN ~@ ELSE @]
    /\ UNCHANGED <<pConfig, killChans, kills, started, pollNum, reconfigs>>

\* poller: pollFunc has returned and the goroutine of handler.Handle runs
Dispatch(t) ==
    /\ tasks[t].st = "polling"
    /\ received' = Append(received, [id |-> tasks[t].info.ID, task |-> t,
                                      pollID |-> tasks[t].pollID,
                                      usingIPv4 |-> tasks[t].usingIPv4])
    /\ \E outcome \in PollOutcomes :
          tasks' = [tasks EXCEPT ![t].st = "handling",
                              ![t].failed = @ \/ httpPoll(outcome),
                              ![t].usingIPv4 = IF tasks[t].info.PollingProtocol = "both"
                                               THEN ~@ ELSE @]
    /\ UNCHANGED <<pConfig, killChans, kills, started, pollNum, reconfigs>>

\* the handler writes to pollFinishedChan and the poller returns to its select
PollFinished(t) ==
    /\ tasks[t].st = "handling"
    /\ tasks' = [tasks EXCEPT ![t].st = "select", ![t].pollID = 0]
    /\ UNCHANGED <<pConfig, killChans, kills, started, pollNum, received, reconfigs>>

\* Die gone wrong: the task receives the kill and goes on polling
Die_KeepPolling(t) ==
    /\ tasks[t].st = "select"
    /\ t \in kills
    /\ kills' = kills \ {t}
    /\ UNCHANGED <<tasks, pConfig, killChans, started, pollNum, received, reconfigs>>

\* poller: case <-die
Die(t) ==
    /\ tasks[t].st = "select"
    /\ t \in kills
    /\ kills' = kills \ {t}
    /\ tasks' = [u \in DOMAIN tasks \ {t} |-> tasks[u]]
    /\ UNCHANGED <<pConfig, killChans, started, pollNum, received, reconfigs>>

StartPoller ==
    /\ pConfig \in {NewCache(proto) : proto \in PollingProtocols}
    /\ killChans = [id \in ProbeIDs |-> 0]
    /\ tasks = [t \in {} |-> 0]
    /\ kills = {}
    /\ started = 0
    /\ pollNum = 0
    /\ received = <<>>
    /\ reconfigs = 0

\* the state of the engine while the other subsystems are looked at
IdlePoller ==
    /\ pConfig = NewCache("both")
    /\ killChans = [id \in ProbeIDs |-> 0]
    /\ tasks = [t \in {} |-> 0]
    /\ kills = {}
    /\ started = 0
    /\ pollNum = 0
    /\ received = <<>>
    /\ reconfigs = 0

(***************************************************************************)
(* Enroller.                                                               *)
(***************************************************************************)
\* number of documents submitted in one behaviour
MaxSubmissions == 2

maxEmptyTries == 10

\* the dispatcher entries looked at; each stands for one document
\* <watchDir>/<type>/doc.json
DocTypes == {"types", "cdns", "servers", "topologies"}

AlreadyExistsAlerts == {[Level |-> "error", Text |-> "already exists"]}
FailureAlerts == {[Level |-> "error", Text |-> "internal server error"]}
SuccessAlerts == {[Level |-> "success", Text |-> "created"]}

\* the contents of a watched file: the document, or nothing as long as its
\* writer has created the file and not written it
Contents == {"doc", "empty"}

\* Traffic Ops answers a create request
CreateAtOps(count, opsOk) ==
    IF count > 0 THEN [err |-> TRUE, alerts |-> AlreadyExistsAlerts, count |-> count]
    ELSE IF opsOk THEN [err |-> FALSE, alerts |-> SuccessAlerts, count |-> count + 1]
    ELSE [err |-> TRUE, alerts |-> FailureAlerts, count |-> count]

\* Traffic Ops answers the create of a zero-valued Topology: it stores
\* nothing that counts as the document
CreateEmptyAtOps(count, opsOk) ==
    [err |-> ~opsOk, alerts |-> IF opsOk THEN SuccessAlerts ELSE FailureAlerts,
     count |-> count]

\* Traffic Ops answers CreateDeliveryServiceServers, which replaces the
\* servers assigned to the delivery service
AssignAtOps(count, opsOk) ==
    IF opsOk THEN [err |-> FALSE, alerts |-> SuccessAlerts, count |-> 1]
    ELSE [err |-> TRUE, alerts |-> FailureAlerts, count |-> count]

\* the documents a handler looks up in Ops before its create request
References(t) ==
    IF t = "deliveryservice_servers" THEN {"deliveryservices", "servers"} ELSE {}

\* enrollDeliveryServiceServer: GetDeliveryServices or GetServers answers
\* with an empty list
MissingReference(t) == \E u \in References(t) : entities[u] = 0

\* the handler returns 'no deliveryservice with name' or 'no server with
\* hostName' and sends no create request
NoReference(count) == [err |-> TRUE, alerts |-> {}, count |-> count]

\* the create request of the handler of type t and its answer
Create(t, count, opsOk) ==
    IF MissingReference(t) THEN NoReference(count)
    ELSE IF t = "deliveryservice_servers" THEN AssignAtOps(count, opsOk)
    ELSE CreateAtOps(count, opsOk)

\* dec.Decode of the handler of type t: TRUE iff the handler returns io.EOF.
\* enrollTopology goes on with the zero value when Decode answers io.EOF
Decode(t, content) == content = "empty" /\ t # "topologies"

\* enrollType: TRUE iff the handler returns an error
enrollType(r) ==
    /\ r.err
    /\ ~\E alert \in r.alerts : alert.Level = "error" /\ alert.Text = "already exists"

enrollCDN(r) ==
    /\ r.err
    /\ ~\E alert \in r.alerts : alert.Text = "already exists"

enrollServer(r) == r.err

enrollDeliveryService(r) ==
    /\ r.err
    /\ ~\E alert \in r.alerts : alert.Text = "already exists"

enrollDeliveryServiceServer(r) == r.err

enrollTopology(r) ==
    /\ r.err
    /\ ~\E alert \in r.alerts : alert.Level = "error" /\ alert.Text = "already exists"

\* the dispatcher of main
dispatcher(t, r) ==
    IF t = "types" THEN enrollType(r)
    ELSE IF t = "cdns" THEN enrollCDN(r)
    ELSE IF t = "topologies" THEN enrollTopology(r)
    ELSE IF t = "deliveryservices" THEN enrollDeliveryService(r)
    ELSE IF t = "deliveryservice_servers" THEN enrollDeliveryServiceServer(r)
    ELSE enrollServer(r)

NoFiles == [pending |-> "none", by |-> "", processed |-> FALSE, rejected |-> FALSE]

\* a document is written into its watched directory by the loader or by
\* another writer
WriteFile(t, by) ==
    /\ submissions < MaxSubmissions
    /\ dirFiles[t].pending = "none"
    /\ \E content \in Contents :
          dirFiles' = [dirFiles EXCEPT ![t].pending = content, ![t].by = by]
    /\ events' = Append(events, t)
    /\ submissions' = submissions + 1
    /\ UNCHANGED <<entities, emptyCount, outcomes>>
    /\ UNCHANGED frontEndVars

\* a document is written into its watched directory
CreateFile(t) == WriteFile(t, "writer")

\* the writer of a created file writes the document into it
WriteContent(t) ==
    /\ dirFiles[t].pending = "empty"
    /\ dirFiles' = [dirFiles EXCEPT ![t].pending = "doc"]
    /\ UNCHANGED <<entities, emptyCount, outcomes, submissions, events>>
    /\ UNCHANGED frontEndVars

\* the watcher that takes whichever unhandled file it likes
WatchEvent_AnyOrder(t) ==
    /\ dirFiles[t].pending # "none"
    /\ \E opsOk \in BOOLEAN :
          LET r == Create(t, entities[t], opsOk)
              err == dispatcher(t, r)
          IN  /\ dirFiles[t].pending = "doc"
              /\ entities' = [entities EXCEPT ![t] = r.count]
              /\ dirFiles' = [dirFiles EXCEPT ![t] =
                              [pending |-> "none", by |-> "",
                               processed |-> @.processed \/ ~err,
                               rejected |-> @.rejected \/ err]]
              /\ outcomes' = [outcomes EXCEPT ![t] = Append(@,
                                  [via |-> "file", exists |-> r.alerts = AlreadyExistsAlerts,
                                   err |-> err, missing |-> MissingReference(t),
                                   by |-> dirFiles[t].by,
                                   suffix |-> IF err THEN ".rejected" ELSE ".processed"])]
              /\ events' = SelectSeq(events, LAMBDA e : e # t)
    /\ UNCHANGED <<emptyCount, submissions>>
    /\ UNCHANGED frontEndVars

\* the watcher goroutine handles the Create event of a file
WatchEvent(t) ==
    /\ events # <<>> /\ Head(events) = t
    /\ IF Decode(t, dirFiles[t].pending)
       THEN \* err == io.EOF
            /\ emptyCount' = [emptyCount EXCEPT ![t] = @ + 1]
            /\ IF emptyCount[t] + 1 < maxEmptyTries
               THEN \* renamed .retry, which raises the next Create event
                    /\ events' = Append(Tail(events), t)
                    /\ UNCHANGED dirFiles
               ELSE /\ dirFiles' = [dirFiles EXCEPT ![t].pending = "none", ![t].by = "",
                                                    ![t].rejected = TRUE]
                    /\ events' = Tail(events)
            /\ UNCHANGED <<entities, outcomes>>
       ELSE \E opsOk \in BOOLEAN :
                LET r == IF dirFiles[t].pending = "empty"
                         THEN CreateEmptyAtOps(entities[t], opsOk)
                         ELSE Create(t, entities[t], opsOk)
                    err == dispatcher(t, r)
                IN  /\ entities' = [entities EXCEPT ![t] = r.count]
                    /\ dirFiles' = [dirFiles EXCEPT ![t] =
                                    [pending |-> "none", by |-> "",
                                     processed |-> @.processed \/ ~err,
                                     rejected |-> @.rejected \/ err]]
                    /\ outcomes' = [outcomes EXCEPT ![t] = Append(@,
                                        [via |-> "file", exists |-> r.alerts = AlreadyExistsAlerts,
                                         err |-> err, missing |-> MissingReference(t),
                                         by |-> dirFiles[t].by,
                                         suffix |-> IF err THEN ".rejected" ELSE ".processed"])]
                    /\ events' = Tail(events)
                    /\ UNCHANGED emptyCount
    /\ UNCHANGED submissions
    /\ UNCHANGED frontEndVars

\* a document is posted to the endpoint of its type
HandleFunc(t) ==
    /\ submissions < MaxSubmissions
    /\ \E opsOk \in BOOLEAN :
          LET r == Create(t, entities[t], opsOk)
              err == dispatcher(t, r)
          IN  /\ entities' = [entities EXCEPT ![t] = r.count]
              /\ outcomes' = [outcomes EXCEPT ![t] = Append(@,
                                  [via |-> "http", exists |-> r.alerts = AlreadyExistsAlerts,
                                   err |-> err, missing |-> MissingReference(t),
                                   by |-> "client", suffix |-> ""])]
    /\ submissions' = submissions + 1
    /\ UNCHANGED <<dirFiles, emptyCount, events>>
    /\ UNCHANGED frontEndVars

\* the loader of Traffic Ops: the directories in the order it visits them
endpoints ==
    <<"cdns", "types", "divisions", "regions", "phys_locations", "tenants", "users",
      "cachegroups", "profiles", "parameters", "server_capabilities", "servers",
      "topologies", "deliveryservices", "federations", "server_server_capabilities",
      "deliveryservice_servers", "deliveryservices_required_capabilities">>

\* the directories of the data set ([[ -d $d ]] || continue), in that order
LoadOrder == SelectSeq(endpoints, LAMBDA d : d \in DocTypes)

\* delayfor gone wrong: it returns at once
delayfor_NoWait(d) == TRUE

\* delayfor returns: the servers of the cache groups of a topology are in
\* Ops; the delivery service and the servers of a deliveryservice_servers
\* document are in Ops
delayfor(d) ==
    /\ d = "topologies" => entities["servers"] > 0
    /\ d = "deliveryservice_servers" =>
           entities["deliveryservices"] > 0 /\ entities["servers"] > 0

\* load_data_from: the loader, whose last envsubst has returned, writes its
\* next file into the watched directory
LoadFile ==
    /\ submissions < Len(LoadOrder)
    /\ \A u \in DocTypes : dirFiles[u].pending # "empty"
    /\ delayfor(LoadOrder[submissions + 1])
    /\ WriteFile(LoadOrder[submissions + 1], "loader")

\* the documents with references looked at, and the documents they refer to
RefTypes == {"servers", "deliveryservices", "deliveryservice_servers"}

\* load_data_from for a data set that holds deliveryservice_servers
\* documents only
LoadReferences ==
    /\ \A u \in RefTypes : dirFiles[u].pending # "empty"
    /\ delayfor("deliveryservice_servers")
    /\ WriteFile("deliveryservice_servers", "loader")

\* number of handler calls begun in one behaviour
MaxRequests == 2

\* the command lines of the enroller: -dir, -http or both; with neither,
\* main watches the current directory
FlagSet == {f \in [dir : BOOLEAN, http : BOOLEAN] : f.dir \/ f.http}

\* no endpoint registered
NoHandleFuncs == [t \in DocTypes |-> ""]

\* startServer: the dispatcher entry the closure of each endpoint calls.  The
\* closure uses the variable f of 'for d, f := range dispatcher': with one
\* variable for the whole loop every closure calls the entry the loop visited
\* last, which the order of the map range decides; with one variable for each
\* iteration every closure calls the entry of its endpoint
HandleFuncs ==
    {[t \in DocTypes |-> t]} \cup {[t \in DocTypes |-> last] : last \in DocTypes}

\* main: startServer, when -http is set
startServer ==
    /\ mainPc = "startServer"
    /\ IF flags.http
       THEN /\ handleFuncs' \in HandleFuncs
            /\ server' = "starting"
       ELSE UNCHANGED <<handleFuncs, server>>
    /\ mainPc' = "startWatching"
    /\ UNCHANGED <<flags, watched, startedFile, active, requests>>
    /\ UNCHANGED documentVars

\* the goroutine of startServer: server.ListenAndServe binds the port and
\* serves, or returns an error and the goroutine panics
ListenAndServe ==
    /\ mainPc # "dead"
    /\ server = "starting"
    /\ \/ /\ server' = "listening"
          /\ UNCHANGED <<mainPc, active>>
       \/ /\ server' = "failed"
          /\ mainPc' = "dead"
          /\ active' = {}
    /\ UNCHANGED <<flags, handleFuncs, watched, startedFile, requests>>
    /\ UNCHANGED documentVars

\* main: startWatching, when -dir is set; dirs are the type directories
\* that exist or can be made
startWatching ==
    /\ mainPc = "startWatching"
    /\ IF flags.dir
       THEN \E newDirWatcherOk \in BOOLEAN, dirs \in SUBSET DocTypes :
                watched' = IF newDirWatcherOk THEN dirs ELSE {}
       ELSE UNCHANGED watched
    /\ mainPc' = "create"
    /\ UNCHANGED <<flags, server, handleFuncs, startedFile, active, requests>>
    /\ UNCHANGED documentVars

\* main: os.Create(startedFile), and the wait that follows it
CreateStartedFile ==
    /\ mainPc = "create"
    /\ \/ /\ startedFile' = TRUE
          /\ mainPc' = "wait"
          /\ UNCHANGED active
       \/ /\ mainPc' = "dead"
          /\ active' = {}
          /\ UNCHANGED startedFile
    /\ UNCHANGED <<flags, server, handleFuncs, watched, requests>>
    /\ UNCHANGED documentVars

\* the watcher goroutine calls dw.watched[t] for a file created in the
\* directory of type t
WatcherCall(t) ==
    /\ mainPc # "dead"
    /\ requests < MaxRequests
    /\ t \in watched
    /\ ~\E a \in active : a.via = "file"
    /\ active' = active \cup {[via |-> "file", type |-> t, handler |-> t,
                                n |-> requests + 1]}
    /\ requests' = requests + 1
    /\ UNCHANGED <<flags, mainPc, server, handleFuncs, watched, startedFile>>
    /\ UNCHANGED documentVars

\* the server starts a goroutine for a request to the endpoint of type t,
\* which calls the closure registered for it
ServeHTTP(t) ==
    /\ mainPc # "dead"
    /\ requests < MaxRequests
    /\ server = "listening"
    /\ active' = active \cup {[via |-> "http", type |-> t, handler |-> handleFuncs[t],
                                n |-> requests + 1]}
    /\ requests' = requests + 1
    /\ UNCHANGED <<flags, mainPc, server, handleFuncs, watched, startedFile>>
    /\ UNCHANGED documentVars

\* a handler call returns
HandlerReturns(a) ==
    /\ mainPc # "dead"
    /\ active' = active \ {a}
    /\ UNCHANGED <<flags, mainPc, server, handleFuncs, watched, startedFile, requests>>
    /\ UNCHANGED documentVars

\* main is called
StartFrontEnds ==
    /\ flags \in FlagSet
    /\ mainPc = "startServer"
    /\ server = "none"
    /\ handleFuncs = NoHandleFuncs
    /\ watched = {}
    /\ startedFile = FALSE
    /\ active = {}
    /\ requests = 0

\* the enroller started with both front-ends, no handler running
IdleFrontEnds ==
    /\ flags = [dir |-> TRUE, http |-> TRUE]
    /\ mainPc = "wait"
    /\ server = "listening"
    /\ handleFuncs = [t \in DocTypes |-> t]
    /\ watched = DocTypes
    /\ startedFile = TRUE
    /\ active = {}
    /\ requests = 0

\* no document submitted
IdleDocuments ==
    /\ entities = [t \in DocTypes |-> 0]
    /\ dirFiles = [t \in DocTypes |-> NoFiles]
    /\ emptyCount = [t \in DocTypes |-> 0]
    /\ outcomes = [t \in DocTypes |-> <<>>]
    /\ submissions = 0
    /\ events = <<>>

\* the state of the enroller when main has started its front-ends; nothing
\* moves it while the other subsystems are looked at
IdleEnroller ==
    /\ IdleDocuments
    /\ IdleFrontEnds

(***************************************************************************)
(* Monitor config poller.                                                  *)
(***************************************************************************)
\* number of configs fetched in one behaviour
MaxConfigs == 5

\* buffer size of ConfigChannel
ConfigChannelSize == 1

\* a send on the channel can proceed
SendReady == Len(ConfigChannel) < ConfigChannelSize

\* a receive from the channel can proceed
RecvReady == Len(ConfigChannel) > 0

\* MonitorConfigPoller.Poll, case opsConfig := <-p.OpsConfigChannel
ReceiveOpsConfig ==
    /\ writing = 0
    /\ \E name \in {"", "cdn"} : name # OpsConfig /\ OpsConfig' = name
    /\ UNCHANGED <<ConfigChannel, writing, iterations, published, returned, lastRead,
                   dropped, Session>>

\* MonitorConfigPoller.Poll, case session := <-p.SessionChannel
ReceiveSession ==
    /\ writing = 0
    /\ ~Session
    /\ Session' = TRUE
    /\ UNCHANGED <<ConfigChannel, writing, iterations, published, returned, lastRead,
                   dropped, OpsConfig>>

\* MonitorConfigPoller.Poll, case <-tick.C: the config is fetched and
\* writeConfig is called with it, or the iteration is skipped
FetchConfig ==
    /\ writing = 0
    /\ published < MaxConfigs
    /\ Session /\ OpsConfig # ""
    /\ \E fetched \in BOOLEAN :
          IF fetched
          THEN /\ published' = published + 1
               /\ writing' = published + 1
               /\ iterations' = 0
          ELSE UNCHANGED <<published, writing, iterations>>
    /\ UNCHANGED <<ConfigChannel, returned, lastRead, dropped, Session, OpsConfig>>

writeConfig_BlockingSend ==
    /\ writing # 0
    /\ SendReady
    /\ ConfigChannel' = Append(ConfigChannel, writing)
    /\ returned' = writing
    /\ writing' = 0
    /\ UNCHANGED <<iterations, published, lastRead, dropped, Session, OpsConfig>>

writeConfig_Queue ==
    /\ writing # 0
    /\ ConfigChannel' = Append(ConfigChannel, writing)
    /\ returned' = writing
    /\ writing' = 0
    /\ UNCHANGED <<iterations, published, lastRead, dropped, Session, OpsConfig>>

\* writeConfig: one pass of the select in its loop
writeConfig ==
    /\ writing # 0
    /\ \/ /\ SendReady
          /\ ConfigChannel' = Append(ConfigChannel, writing)
          /\ returned' = writing
          /\ writing' = 0
          /\ UNCHANGED <<iterations, dropped>>
       \/ /\ RecvReady
          /\ ConfigChannel' = Tail(ConfigChannel)
          /\ dropped' = dropped \cup {Head(ConfigChannel)}
          /\ iterations' = iterations + 1
          /\ UNCHANGED <<returned, writing>>
    /\ UNCHANGED <<published, lastRead, Session, OpsConfig>>

\* the monitor config manager receives from ConfigChannel
ReadConfig ==
    /\ RecvReady
    /\ lastRead' = Head(ConfigChannel)
    /\ ConfigChannel' = Tail(ConfigChannel)
    /\ UNCHANGED <<writing, iterations, published, returned, dropped, Session, OpsConfig>>

\* NewMonitorConfig
StartMonitorConfig ==
    /\ ConfigChannel = <<>>
    /\ writing = 0
    /\ iterations = 0
    /\ published = 0
    /\ returned = 0
    /\ lastRead = 0
    /\ dropped = {}
    /\ Session = FALSE
    /\ OpsConfig = ""

\* the state of the poller while the other subsystems are looked at
IdleMonitorConfig == StartMonitorConfig

(***************************************************************************)
(* State combiner: local observation and peer opinions of one cache.       *)
(***************************************************************************)
\* number of peer monitors
MaxPeers == 3

PeerNames == 1..MaxPeers

\* the peers whose opinion is not older than one polling interval
NonStalePeers(peers) == {p \in PeerNames : peers[p] # "stale"}

AvailablePeers(peers) == {p \in PeerNames : peers[p] = "available"}

\* the combiner that never changes the combined value
CombinedAvailability_KeepPrevious(previous, local, peers, quorumMin) == previous

\* the combined availability of the cache
CombinedAvailability(previous, local, peers, quorumMin) ==
    IF local /\ Cardinality(AvailablePeers(peers)) >= quorumMin
    THEN TRUE
    ELSE IF ~local /\ AvailablePeers(peers) = {}
    THEN FALSE
    ELSE previous

\* the local probe of the cache reports
LocalResult ==
    \E isAvailable \in BOOLEAN :
        /\ localStates' = isAvailable
        /\ combinedStates' = CombinedAvailability(combinedStates, isAvailable, peerStates,
                                                  PeerOptimisticQuorumMin)
        /\ UNCHANGED <<PeerOptimisticQuorumMin, peerStates>>

\* the poll of a peer monitor reports the peer's opinion
PeerResult(p) ==
    \E opinion \in {"available", "unavailable"} :
        /\ peerStates' = [peerStates EXCEPT ![p] = opinion]
        /\ combinedStates' = CombinedAvailability(combinedStates, localStates, peerStates',
                                                  PeerOptimisticQuorumMin)
        /\ UNCHANGED <<PeerOptimisticQuorumMin, localStates>>

\* the opinion of a peer becomes older than one polling interval
PeerStale(p) ==
    /\ peerStates[p] # "stale"
    /\ peerStates' = [peerStates EXCEPT ![p] = "stale"]
    /\ combinedStates' = CombinedAvailability(combinedStates, localStates, peerStates',
                                              PeerOptimisticQuorumMin)
    /\ UNCHANGED <<PeerOptimisticQuorumMin, localStates>>

\* the monitor has started: nothing polled yet
StartCombiner(quorumMin) ==
    /\ PeerOptimisticQuorumMin = quorumMin
    /\ localStates = FALSE
    /\ peerStates = [p \in PeerNames |-> "stale"]
    /\ combinedStates = FALSE

IdleCombiner == StartCombiner(0)

(***************************************************************************)
(* remap.config overrides.                                                 *)
(***************************************************************************)
\* number of lines of a generated remap.config
MaxLines == 3

RemapFroms == {"http://a", "http://b"}
RemapTos == {"http://origin", "http://origin2"}

\* the lines of a remap.config, as strings.Fields splits them: an empty
\* line, a rule, a rule behind the override marker
RemapLines ==
    {<<>>}
    \cup {<<"map", from, to>> : from \in RemapFroms, to \in RemapTos}
    \cup {<<"##OVERRIDE##", "map", from, to>> : from \in RemapFroms, to \in RemapTos}

RemapBodies == UNION {[1..n -> RemapLines] : n \in 0..MaxLines}

\* the loop of processRemapOverrides from line ii on
RECURSIVE RemapLoop(_, _, _, _, _)
RemapLoop(lines, ii, overrides, newlines, overrideCount) ==
    IF ii > Len(lines) THEN [newlines |-> newlines, overrideCount |-> overrideCount]
    ELSE LET fields == lines[ii]
         IN  IF Len(fields) < 2
             THEN RemapLoop(lines, ii + 1, overrides, newlines, overrideCount)
             ELSE IF fields[2] \in overrides
             THEN RemapLoop(lines, ii + 1, overrides,
                            Append(newlines, <<"##OVERRIDDEN##">> \o fields), overrideCount)
             ELSE IF fields[1] = "##OVERRIDE##"
             THEN RemapLoop(lines, ii + 1, overrides \cup {fields[3]},
                            newlines \o <<(<<"##OVERRIDE##">>), Tail(fields)>>,
                            overrideCount + 1)
             ELSE RemapLoop(lines, ii + 1, overrides, Append(newlines, fields), overrideCount)

\* processRemapOverrides on the generated remap.config
processRemapOverrides ==
    /\ remapErr = ""
    /\ IF Len(remapBody) > 0
       THEN LET r == RemapLoop(remapBody, 1, {}, <<>>, 0)
            IN  /\ remapBody' = IF r.overrideCount > 0 THEN r.newlines ELSE remapBody
                /\ remapErr' = "nil"
       ELSE /\ remapErr' = "empty"
            /\ UNCHANGED remapBody
    /\ UNCHANGED remapInput

\* the generator has written a remap.config
StartRemap(body) ==
    /\ remapInput = body
    /\ remapBody = body
    /\ remapErr = ""

IdleRemap == StartRemap(<<>>)

(***************************************************************************)
(* Reconciliation agent: specification.                                    *)
(***************************************************************************)
IdleAgent ==
    /\ cfg = [Files |-> ApplyFilesFlagAll, ServiceAction |-> "reload",
              ReportOnly |-> FALSE, IgnoreUpdateFlag |-> FALSE,
              WaitForParents |-> FALSE, NoUnsetUpdateFlag |-> FALSE,
              InstallPackages |-> FALSE]
    /\ lockHeld = 0
    /\ ops = [UpdatePending |-> FALSE, RevalPending |-> FALSE,
              ParentPending |-> FALSE, ParentRevalPending |-> FALSE,
              ConfigUpdateTime |-> 0, RevalidateUpdateTime |-> 0, Certs |-> FALSE,
              Located |-> ProfileFiles]
    /\ desired = [f \in FileNames |-> 0]
    /\ disk = [f \in FileNames |-> FileRec(0)]
    /\ tmp = [f \in FileNames |-> NoFile]
    /\ inv = [p \in {1} |-> NewInv]

InitAgent ==
    /\ IdleHealth
    /\ IdlePoller
    /\ IdleEnroller
    /\ IdleMonitorConfig
    /\ IdleCombiner
    /\ IdleRemap
    /\ cfg \in CfgSet
    /\ lockHeld = 0
    /\ ops = [UpdatePending |-> FALSE, RevalPending |-> FALSE,
              ParentPending |-> FALSE, ParentRevalPending |-> FALSE,
              ConfigUpdateTime |-> 0, RevalidateUpdateTime |-> 0, Certs |-> FALSE,
              Located |-> ProfileFiles]
    /\ desired = [f \in FileNames |-> 0]
    /\ disk = [f \in FileNames |-> FileRec(0)]
    /\ tmp = [f \in FileNames |-> NoFile]
    /\ inv = [p \in {1} |-> NewInv]

\* one step of invocation p
Main(p) ==
    \/ Start(p)
    \/ AcquireLock(p)
    \/ Setup(p)
    \/ CheckRevalidateState(p)
    \/ CheckSyncDSState(p)
    \/ CheckSyncDSStateRefetch(p)
    \/ RevalidateWhileSleeping(p)
    \/ ProcessPackages(p)
    \/ GetConfigFileList(p)
    \/ AuditConfigFiles(p)
    \/ ApplyConfigFile(p)
    \/ WriteTempFile(p)
    \/ RenameTempFile(p)
    \/ FinishConfigFiles(p)
    \/ MaxmindCheck(p)
    \/ MaxmindOnly(p)
    \/ StartServices(p)
    \/ UpdateTrafficOps(p)

\* one invocation, with the orchestrator queueing updates around it
NextAgent ==
    \/ QueueUpdate /\ UNCHANGED nonAgentVars
    \/ QueueReval /\ UNCHANGED nonAgentVars
    \/ ParentsApplied /\ UNCHANGED nonAgentVars
    \/ \E p \in DOMAIN inv : Main(p) /\ UNCHANGED nonAgentVars

SpecAgent == InitAgent /\ [][NextAgent]_vars

\* two invocations started on one node (cron and an operator), with the
\* flags of the scheduled run and the updates queued before they start
LockCfgSet ==
    {c \in CfgSet : /\ c.ServiceAction = "reload"
                    /\ ~c.ReportOnly /\ ~c.NoUnsetUpdateFlag
                    /\ ~c.IgnoreUpdateFlag /\ c.WaitForParents}

LockOpsSet ==
    {[UpdatePending |-> u, RevalPending |-> ~u, ParentPending |-> u /\ pp,
      ParentRevalPending |-> FALSE, ConfigUpdateTime |-> IF u THEN 1 ELSE 0,
      RevalidateUpdateTime |-> IF u THEN 0 ELSE 1, Certs |-> FALSE,
              Located |-> ProfileFiles] :
         u \in BOOLEAN, pp \in BOOLEAN}

InitLock ==
    /\ IdleHealth
    /\ IdlePoller
    /\ IdleEnroller
    /\ IdleMonitorConfig
    /\ IdleCombiner
    /\ IdleRemap
    /\ cfg \in LockCfgSet
    /\ lockHeld = 0
    /\ ops \in LockOpsSet
    /\ desired = [f \in FileNames |->
                    IF f \in RevalFiles THEN ops.RevalidateUpdateTime ELSE ops.ConfigUpdateTime]
    /\ disk = [f \in FileNames |-> FileRec(0)]
    /\ tmp = [f \in FileNames |-> NoFile]
    /\ inv = [p \in Procs |-> NewInv]

NextLock == \E p \in DOMAIN inv : Main(p) /\ UNCHANGED nonAgentVars

\* one scheduled invocation on a server that has a certificate among its
\* files
InitVerify ==
    /\ IdleHealth
    /\ IdlePoller
    /\ IdleEnroller
    /\ IdleMonitorConfig
    /\ IdleCombiner
    /\ IdleRemap
    /\ cfg \in LockCfgSet
    /\ lockHeld = 0
    /\ ops = [UpdatePending |-> FALSE, RevalPending |-> FALSE,
              ParentPending |-> FALSE, ParentRevalPending |-> FALSE,
              ConfigUpdateTime |-> 0, RevalidateUpdateTime |-> 0, Certs |-> TRUE,
              Located |-> ProfileFiles]
    /\ desired = [f \in FileNames |-> 0]
    /\ disk = [f \in FileNames |-> FileRec(0)]
    /\ tmp = [f \in FileNames |-> NoFile]
    /\ inv = [p \in {1} |-> NewInv]

SpecVerify == InitVerify /\ [][NextAgent]_vars

\* one report-only invocation
InitReport ==
    /\ IdleHealth
    /\ IdlePoller
    /\ IdleEnroller
    /\ IdleMonitorConfig
    /\ IdleCombiner
    /\ IdleRemap
    /\ cfg \in ReportCfgSet
    /\ lockHeld = 0
    /\ ops = [UpdatePending |-> FALSE, RevalPending |-> FALSE,
              ParentPending |-> FALSE, ParentRevalPending |-> FALSE,
              ConfigUpdateTime |-> 0, RevalidateUpdateTime |-> 0, Certs |-> FALSE,
              Located |-> ProfileFiles]
    /\ desired = [f \in FileNames |-> 0]
    /\ disk = [f \in FileNames |-> FileRec(0)]
    /\ tmp = [f \in FileNames |-> NoFile]
    /\ inv = [p \in {1} |-> NewInv]

SpecReport == InitReport /\ [][NextAgent]_vars

SpecLock == InitLock /\ [][NextLock]_vars

\* one invocation in all mode on a server whose profile locates any of
\* remap.config and plugin.config
ProfileCfgSet ==
    {c \in CfgSet : /\ c.Files = ApplyFilesFlagAll /\ c.ServiceAction = "reload"
                    /\ ~c.ReportOnly /\ ~c.NoUnsetUpdateFlag /\ ~c.WaitForParents}

InitProfile ==
    /\ IdleHealth
    /\ IdlePoller
    /\ IdleEnroller
    /\ IdleMonitorConfig
    /\ IdleCombiner
    /\ IdleRemap
    /\ cfg \in ProfileCfgSet
    /\ lockHeld = 0
    /\ \E located \in SUBSET ProfileFiles :
          ops = [UpdatePending |-> FALSE, RevalPending |-> FALSE,
                 ParentPending |-> FALSE, ParentRevalPending |-> FALSE,
                 ConfigUpdateTime |-> 0, RevalidateUpdateTime |-> 0, Certs |-> FALSE,
                 Located |-> located]
    /\ desired = [f \in FileNames |-> 0]
    /\ disk = [f \in FileNames |-> FileRec(0)]
    /\ tmp = [f \in FileNames |-> NoFile]
    /\ inv = [p \in {1} |-> NewInv]

SpecProfile == InitProfile /\ [][NextAgent]_vars

\* one invocation in all mode with --install-packages, not report-only
PackagesCfgSet ==
    [Files : {ApplyFilesFlagAll},
     ServiceAction : {"reload"},
     ReportOnly : {FALSE},
     IgnoreUpdateFlag : BOOLEAN,
     WaitForParents : {FALSE},
     NoUnsetUpdateFlag : BOOLEAN,
     InstallPackages : {TRUE}]

InitPackages ==
    /\ IdleHealth
    /\ IdlePoller
    /\ IdleEnroller
    /\ IdleMonitorConfig
    /\ IdleCombiner
    /\ IdleRemap
    /\ cfg \in PackagesCfgSet
    /\ lockHeld = 0
    /\ ops = [UpdatePending |-> FALSE, RevalPending |-> FALSE,
              ParentPending |-> FALSE, ParentRevalPending |-> FALSE,
              ConfigUpdateTime |-> 0, RevalidateUpdateTime |-> 0, Certs |-> FALSE,
              Located |-> ProfileFiles]
    /\ desired = [f \in FileNames |-> 0]
    /\ disk = [f \in FileNames |-> FileRec(0)]
    /\ tmp = [f \in FileNames |-> NoFile]
    /\ inv = [p \in {1} |-> NewInv]

SpecPackages == InitPackages /\ [][NextAgent]_vars

(***************************************************************************)
(* Reconciliation agent: properties.                                       *)
(***************************************************************************)
\* the invocations that are past the lock loop and have not exited
PastLock == {p \in DOMAIN inv : inv[p].pc \notin {"idle", "lock", "done"}}

C30_SuccessOnlyAfterTransition ==
    [][\A p \in DOMAIN inv :
          (inv[p].status = UpdateTropsNeeded /\ inv'[p].status = UpdateTropsSuccessful)
              => TransitionPerformed(inv'[p])]_vars

\* C30, amended: the status goes from needed to successful only when the
\* invocation has put ATS through the required transition, when none is
\* required, or under ServiceAction reload when the changed files require a
\* restart, which is then left to the next start of ATS.
C30_SuccessAfterTransitionOrDeferredRestart ==
    [][\A p \in DOMAIN inv :
          (inv[p].status = UpdateTropsNeeded /\ inv'[p].status = UpdateTropsSuccessful)
              => \/ TransitionPerformed(inv'[p])
                 \/ /\ cfg.ServiceAction = "reload"
                    /\ RequiredTransition(inv'[p]) = ServiceNeedsRestart]_vars

C30_Witness ==
    \E p \in DOMAIN inv :
        /\ inv[p].status = UpdateTropsSuccessful
        /\ RequiredTransition(inv[p]) = ServiceNeedsReload
        /\ inv[p].transitions = {"reload"}

\* the steps in which an invocation handles the packages or the config files
ProcessingSteps == {"packages", "gen", "audit", "apply", "write", "rename"}

C32_VetoedFileNotWritten ==
    \A p \in DOMAIN inv :
        \A f \in {"plugin.config", "remap.config"} :
            VetoPartner(f) \in inv[p].verifyFailed =>
                /\ f \notin inv[p].changedFiles
                /\ ~(inv[p].pc \in {"write", "rename"} /\ inv[p].cur = f)

\* C33, as stated: when a changed plugin.config comes up in the apply loop
\* and no remap.config was generated (or a changed remap.config and no
\* plugin.config), the loop goes on to write the file.
C33_AbsentCounterpartFileWritten ==
    [][\A p \in DOMAIN inv : \A f \in ProfileFiles :
          ( /\ inv[p].pc = "apply"
            /\ f \in inv[p].todo
            /\ inv[p].configFiles[f].ChangeNeeded
            /\ inv[p].configFiles[f].AuditComplete
            /\ ~inv[p].configFiles[VetoPartner(f)].present
            /\ inv'[p].todo = inv[p].todo \ {f} )
          => /\ inv'[p].pc = "write" /\ inv'[p].cur = f
             /\ inv'[p].exitCode # ExitCodeGeneralFailure]_vars

\* C36, as stated: of the yum commands of the package phase every uninstall
\* comes before every install, and when the phase of a run with
\* InstallPackages and without ReportOnly is over, every package on the
\* uninstall list has been uninstalled and every package on the install
\* list has been installed.
C36_UninstallFirstAndAllActedOn ==
    \A p \in DOMAIN inv :
        LET log == inv[p].pkgLog IN
        /\ \A i, j \in DOMAIN log :
               log[i].action = "install" /\ log[j].action = "uninstall" => j < i
        /\ (cfg.InstallPackages /\ ~cfg.ReportOnly) =>
               /\ Range(Logged("uninstall", inv[p].scheduled.uninstall)) \subseteq Range(log)
               /\ Range(Logged("install", inv[p].scheduled.install)) \subseteq Range(log)

\* C36, amended: every uninstall comes before every install; when the phase
\* of a run with InstallPackages and without ReportOnly has returned without
\* an error, every scheduled package has been acted on; when it has returned
\* the packaging error, the commands run are the uninstalls and installs up
\* to the one that failed, in the order of the lists.
C36_UninstallFirstAndAllActedOnUnlessFailed ==
    \A p \in DOMAIN inv :
        LET log == inv[p].pkgLog
            all == Logged("uninstall", inv[p].scheduled.uninstall)
                       \o Logged("install", inv[p].scheduled.install)
        IN
        /\ \A i, j \in DOMAIN log :
               log[i].action = "install" /\ log[j].action = "uninstall" => j < i
        /\ (cfg.InstallPackages /\ ~cfg.ReportOnly) =>
               /\ Len(log) <= Len(all) /\ log = SubSeq(all, 1, Len(log))
               /\ inv[p].exitCode # ExitCodePackagingError => log = all

C36_Witness ==
    \E p \in DOMAIN inv :
        /\ cfg.InstallPackages /\ ~cfg.ReportOnly
        /\ inv[p].pc = "done" /\ inv[p].exitCode = ExitCodeSuccess
        /\ Len(inv[p].scheduled.uninstall) = 2
        /\ Len(inv[p].pkgLog) = 4

\* C5: of two invocations on one node at most one is past the lock loop,
\* and an invocation past the lock loop holds the lock.
C5_OneHolder ==
    /\ Cardinality(PastLock) <= 1
    /\ \A p \in PastLock : lockHeld = p

C5_Witness ==
    \E p, q \in DOMAIN inv :
        /\ inv[p].pc = "rename"
        /\ inv[q].pc = "lock"
        /\ inv[q].tries > 0

\* C15: an invocation that finds the lock held retries, one sleep of
\* LockFileRetryInterval per failed attempt, and exits with
\* ExitCodeAlreadyRunning only at a failed attempt made after
\* LockRetryLimit sleeps (LockFileRetryTimeout) while another invocation
\* holds the lock; that step changes no file, no temp file, nothing at Ops
\* and not the lock, and the invocation has run no step of Main after the
\* lock loop: no package step, no file replaced, no ATS transition, no
\* update sent.
C15_LockTimeoutExitsUntouched ==
    [][\A p \in DOMAIN inv :
          /\ inv[p].pc = "lock" /\ inv'[p].pc = "lock" /\ inv'[p] # inv[p] =>
                /\ lockHeld \notin {0, p}
                /\ inv[p].tries < LockRetryLimit
                /\ inv'[p] = [inv[p] EXCEPT !.tries = @ + 1]
          /\ inv'[p].exitCode = ExitCodeAlreadyRunning /\ inv[p].exitCode # ExitCodeAlreadyRunning =>
                /\ inv[p].pc = "lock"
                /\ lockHeld \notin {0, p}
                /\ inv[p].tries = LockRetryLimit
                /\ inv'[p] = [NewInv EXCEPT !.pc = "done", !.tries = LockRetryLimit,
                                            !.exitCode = ExitCodeAlreadyRunning]
                /\ UNCHANGED <<cfg, lockHeld, ops, desired, disk, tmp>>
    ]_vars

C15_Witness ==
    \E p, q \in DOMAIN inv :
        /\ inv[p].exitCode = ExitCodeAlreadyRunning
        /\ inv[p].tries = LockRetryLimit
        /\ q \in PastLock
        /\ lockHeld = q

\* C20: a generated file whose plugin or certificate verification failed
\* in the audit has a warning recorded for the final summary and is neither
\* handed to replaceCfgFile nor replaced on disk by that pass, while every
\* other generated file has its audit completed.
C20_FailedVerificationNotWritten ==
    \A p \in DOMAIN inv :
        /\ \A f \in inv[p].verifyFailed :
              /\ f \in inv[p].configFileWarnings
              /\ inv[p].cur # f
              /\ ~inv[p].configFiles[f].ChangeApplied
        /\ inv[p].pc \in {"apply", "write", "rename"} =>
              \A f \in FileNames :
                  inv[p].configFiles[f].present /\ f \notin inv[p].verifyFailed
                      => inv[p].configFiles[f].AuditComplete

\* C21: with ReportOnly set an invocation only logs, whatever the other
\* flags are (InstallPackages included): it has installed and uninstalled no
\* package, replaced no config file (every final path and temp path is as
\* it was), run no ATS reload, restart or start, and sent no clear request.
C21_ReportOnlyOnlyLogs ==
    cfg.ReportOnly =>
        /\ disk = [f \in FileNames |-> FileRec(0)]
        /\ tmp = [f \in FileNames |-> NoFile]
        /\ \A p \in DOMAIN inv :
              /\ inv[p].pkgActions = {}
              /\ inv[p].changedFiles = {}
              /\ inv[p].transitions = {}
              /\ inv[p].clears = {}

\* C6: every step leaves the file at a final path as it was or turns it into
\* exactly the generated file (bytes, mode, uid, gid) of the invocation
\* that is replacing it; no step leaves a partial file there.
C6_AtomicReplace ==
    [][\A f \in FileNames :
          disk'[f] # disk[f] =>
              \E p \in DOMAIN inv :
                  /\ inv[p].cur = f
                  /\ inv[p].configFiles[f].present
                  /\ disk'[f] = inv[p].configFiles[f].Body
                  /\ disk'[f].bytes >= 0
                  /\ disk'[f].perm = FileModeDefault
                  /\ disk'[f].uid = AtsUid /\ disk'[f].gid = AtsUid]_vars

C6_Witness ==
    \E p \in DOMAIN inv : \E f \in inv[p].changedFiles, g \in FileNames :
        /\ disk[f] = inv[p].configFiles[f].Body
        /\ disk[f].bytes > 0
        /\ tmp[g].bytes = PartialBytes
        /\ disk[g].bytes = 0

C9_ClearCarriesObservedTime ==
    \A p \in DOMAIN inv : \A c \in inv[p].clears :
        c.time = IF c.files = ApplyFilesFlagAll
                 THEN inv[p].obsCfgTime ELSE inv[p].obsRevalTime

NextHealth == PollAndUpdateCacheStatus /\ UNCHANGED nonHealthVars

InitHealth ==
    /\ IdleAgent
    /\ IdlePoller
    /\ IdleEnroller
    /\ IdleMonitorConfig
    /\ IdleCombiner
    /\ IdleRemap
    /\ StartHealth

SpecHealth == InitHealth /\ [][NextHealth]_vars

\* C2: a poll runs the CLI to mark a parent down only when the monitor has
\* reported it unavailable on at least UnavailablePollThreshold polls in a
\* row, counted from zero again after a poll that reported it available;
\* while the parent is held available the stored UnavailablePollCount never
\* exceeds that number of polls.
C2_DownOnlyAfterThreshold ==
    \A h \in Hosts :
        /\ lastCmd[h] = "down" => streak[h] >= hcfg.UnavailablePollThreshold
        /\ available(Parents[h], hcfg.ReasonCode) =>
               Parents[h].UnavailablePollCount <= streak[h]

C2_Witness ==
    \E h \in Hosts :
        /\ lastCmd[h] = "down"
        /\ hcfg.UnavailablePollThreshold = 2
        /\ streak[h] = 2
        /\ ~hostStatus[h][hcfg.ReasonCode]

\* C26: with EnableActiveMarkdowns false no poll runs the CLI to mark a
\* parent down and no parent is down in the host status, whatever the monitor
\* reports; a poll in which the monitor reports a parent unavailable writes
\* the intended mark down to the log.
C26_NoMarkDownWhenDisabled ==
    /\ [](~hcfg.EnableActiveMarkdowns =>
              \A h \in Hosts : lastCmd[h] # "down" /\ hostStatus[h] = AllReasonsUp)
    /\ [][~hcfg.EnableActiveMarkdowns =>
              \A h \in Hosts : streak'[h] > streak[h] => lastCmd'[h] = "logged"]_vars

C26_Witness ==
    \E h \in Hosts :
        /\ ~hcfg.EnableActiveMarkdowns
        /\ lastCmd[h] = "logged"
        /\ streak[h] >= hcfg.UnavailablePollThreshold
        /\ streak[h] >= 2

\* the controller with the available reports counted; a parent is marked
\* down on the first unavailable report
MarkUpCfgSet ==
    {c \in HealthCfgSet : c.UnavailablePollThreshold = 1 /\ c.EnableActiveMarkdowns}

NextMarkUp == PollCounted /\ UNCHANGED nonHealthVars

InitMarkUp ==
    /\ IdleAgent
    /\ IdlePoller
    /\ IdleEnroller
    /\ IdleMonitorConfig
    /\ IdleCombiner
    /\ IdleRemap
    /\ StartHealth
    /\ hcfg \in MarkUpCfgSet

SpecMarkUp == InitMarkUp /\ [][NextMarkUp]_vars

\* C25: a poll runs the CLI to mark a parent up only when the monitor has
\* reported it available on at least MarkUpPollThreshold polls in a row, no
\* poll in between having reported it unavailable.
C25_UpOnlyAfterThreshold ==
    \A h \in Hosts :
        lastCmd[h] = "up" => upStreak[h] >= hcfg.MarkUpPollThreshold

\* the controller with the commands of each read written down, under the
\* configurations with one threshold for both directions and mark downs
\* enabled
StatusReadCfgSet ==
    {c \in HealthCfgSet : /\ c.MarkUpPollThreshold = c.UnavailablePollThreshold
                          /\ c.EnableActiveMarkdowns}

NextStatusRead == PollLogged /\ UNCHANGED nonHealthVars

InitStatusRead ==
    /\ IdleAgent
    /\ IdlePoller
    /\ IdleEnroller
    /\ IdleMonitorConfig
    /\ IdleCombiner
    /\ IdleRemap
    /\ StartHealth
    /\ hcfg \in StatusReadCfgSet

SpecStatusRead == InitStatusRead /\ [][NextStatusRead]_vars

HostStatusCfgSet ==
    {c \in HealthCfgSet : /\ c.ReasonCode = "active"
                          /\ c.UnavailablePollThreshold = 1
                          /\ c.MarkUpPollThreshold = 1
                          /\ c.EnableActiveMarkdowns}

InitHostStatus ==
    /\ IdleAgent
    /\ IdlePoller
    /\ IdleEnroller
    /\ IdleMonitorConfig
    /\ IdleCombiner
    /\ IdleRemap
    /\ hcfg \in HostStatusCfgSet
    /\ Parents = [h \in Hosts |-> NewParentStatus]
    /\ traffic_ctl_index = 0
    /\ hostStatus \in [Hosts -> [active : BOOLEAN, local : BOOLEAN, manual : BOOLEAN]]
    /\ streak = [h \in Hosts |-> 0]
    /\ upStreak = [h \in Hosts |-> 0]
    /\ statusRead = NoRead
    /\ lastCmd = [h \in Hosts |-> "none"]

SpecHostStatus == InitHostStatus /\ [][NextHealth]_vars

\* C28: in every state a poll can begin in, a read of the host status that
\* works leaves each parent's entry with the active, local and manual bits of
\* the parent's line.
C28_ReadTakesLineBits ==
    \A h \in Hosts :
        LET pv == readHostStatus(Parents[h], hostStatus[h])
        IN  /\ pv.ActiveReason = hostStatus[h].active
            /\ pv.LocalReason = hostStatus[h].local
            /\ pv.ManualReason = hostStatus[h].manual

\* C29: a poll runs the v10 form of the read first as long as no v10
\* invocation has failed, and then runs nothing else if it worked; when it
\* fails the same poll runs the v9 form; every poll after that one runs the
\* v9 form only.
C29_ReadFormDowngrade ==
    /\ [](traffic_ctl_index = 1 <=> 1 \in statusRead.tried)
    /\ [][/\ 1 \notin statusRead.tried => 0 \in statusRead'.tried
          /\ 1 \in statusRead.tried => statusRead'.tried = {1}
          /\ statusRead'.form = 0 => statusRead'.tried = {0}
          /\ (0 \in statusRead'.tried /\ statusRead'.form # 0) =>
                 1 \in statusRead'.tried]_vars

C29_Witness ==
    /\ statusRead.tried = {1}
    /\ statusRead.form = 1
    /\ traffic_ctl_index = 1

(***************************************************************************)
(* Cache polling engine: specifications and properties.                    *)
(***************************************************************************)
InitPoller ==
    /\ IdleAgent
    /\ IdleHealth
    /\ IdleEnroller
    /\ IdleMonitorConfig
    /\ IdleCombiner
    /\ IdleRemap
    /\ StartPoller

NextPoller ==
    \/ Poll /\ UNCHANGED nonPollerVars
    \/ \E t \in DOMAIN tasks : Tick(t) /\ UNCHANGED nonPollerVars
    \/ \E t \in DOMAIN tasks : Dispatch(t) /\ UNCHANGED nonPollerVars
    \/ \E t \in DOMAIN tasks : PollFinished(t) /\ UNCHANGED nonPollerVars
    \/ \E t \in DOMAIN tasks : Die(t) /\ UNCHANGED nonPollerVars

SpecPoller == InitPoller /\ [][NextPoller]_vars

\* the task numbers a behaviour can hand out
TaskNumbers == 1..(MaxEvents * Cardinality(ProbeIDs))

\* the steps of task t that do not wait for the ticker
Handled(t) ==
    t \in DOMAIN tasks /\ (Dispatch(t) \/ PollFinished(t)) /\ UNCHANGED nonPollerVars

Dies(t) == t \in DOMAIN tasks /\ Die(t) /\ UNCHANGED nonPollerVars

NextCancel ==
    \/ PollUrls /\ UNCHANGED nonPollerVars
    \/ \E t \in DOMAIN tasks : Tick(t) /\ UNCHANGED nonPollerVars
    \/ \E t \in DOMAIN tasks : Dispatch(t) /\ UNCHANGED nonPollerVars
    \/ \E t \in DOMAIN tasks : PollFinished(t) /\ UNCHANGED nonPollerVars
    \/ \E t \in DOMAIN tasks : Die(t) /\ UNCHANGED nonPollerVars

\* The engine with its scheduling: a request that was begun returns and its
\* Handler signals the completion (weak fairness: a task that can go on is
\* not held back for ever), and of the tasks that come back to their select
\* again and again with a kill waiting one takes it in the end: select
\* picks among the ready cases at random and the ticker is not ready for a
\* whole interval after a tick (strong fairness).
SpecCancel ==
    /\ InitPoller
    /\ [][NextCancel]_vars
    /\ WF_vars(\E t \in TaskNumbers : Handled(t))
    /\ SF_vars(\E t \in TaskNumbers : Dies(t))

\* exactly the IDs of the applied config have a running task, one each,
\* started with the values the config holds for the ID
Converged ==
    /\ \A id \in UrlIDs(pConfig) :
          \E t \in DOMAIN tasks :
              /\ tasks[t].info = CachePollInfo(pConfig, id)
              /\ \A u \in DOMAIN tasks : tasks[u].info.ID = id => u = t
    /\ \A t \in DOMAIN tasks : tasks[t].info.ID \in UrlIDs(pConfig)

\* C3: after the configs the engine has received it reaches a state where
\* exactly the IDs of the last config have a running task, one each and
\* carrying the values of that config, and every other task has exited.  A
\* task exits only by taking a kill, so in every state in which no kill
\* is pending that state has been reached.
C3_ConvergedWhenNoKillPending == kills = {} => Converged

\* C4: for every probe ID the handler receives the results in tick order:
\* of two results of one ID the one received first has the smaller poll
\* number.
C4_TickOrderPerID ==
    \A i, j \in 1..Len(received) :
        i < j /\ received[i].id = received[j].id =>
            received[i].pollID < received[j].pollID

\* C34, as stated: when a config is received, a probe ID of both the old and
\* the new config is replaced (its task is sent a kill and a task with the
\* new values is started) if some field of its Probe differs between the two,
\* the polling protocol included, and is left alone if every field is equal.
C34_ReplacedIffProbeDiffers ==
    [][reconfigs' = reconfigs + 1 =>
          \A id \in UrlIDs(pConfig) \cap UrlIDs(pConfig') :
              IF CachePollInfo(pConfig, id) # CachePollInfo(pConfig', id)
              THEN /\ killChans[id] \in kills'
                   /\ killChans'[id] \notin DOMAIN tasks
                   /\ killChans'[id] \in DOMAIN tasks'
                   /\ tasks'[killChans'[id]].info = CachePollInfo(pConfig', id)
              ELSE /\ killChans'[id] = killChans[id]
                   /\ killChans[id] \notin kills'
                   /\ DOMAIN tasks' = DOMAIN tasks
    ]_vars

\* C35, as stated: a task in both mode with a URL for each family issues a
\* request on every tick and the family of its next request is the other
\* one; a task with a URL for one family only, once it has issued a request,
\* issues a request to that URL on every tick.
C35_FamilyOfEveryTick ==
    [][\A t \in DOMAIN tasks \cap DOMAIN tasks' :
          LET p == tasks[t]
              url == p.info.PollConfig.URL
              url6 == p.info.PollConfig.URLv6
              ticked == p.st = "select" /\ tasks'[t] # p
          IN  /\ (p.info.PollingProtocol = "both" /\ url # "" /\ url6 # "") =>
                    /\ ticked => tasks'[t].st = "polling"
                    /\ p.st = "polling" /\ tasks'[t].st # "polling" =>
                           tasks'[t].usingIPv4 = ~p.usingIPv4
              /\ ( /\ (url = "") # (url6 = "")
                   /\ \E i \in 1..Len(received) : received[i].task = t
                   /\ ticked ) =>
                    /\ tasks'[t].st = "polling"
                    /\ tasks'[t].usingIPv4 = (url # "")
    ]_vars

C11_UnchangedProbeUndisturbed ==
    [][reconfigs' # reconfigs =>
        /\ \A a \in UrlIDs(pConfig) :
              (/\ pConfig'.Urls[a] = pConfig.Urls[a]
               /\ pConfig'.Interval = pConfig.Interval
               /\ pConfig'.NoKeepAlive = pConfig.NoKeepAlive)
              => /\ killChans'[a] = killChans[a]
                 /\ killChans[a] \notin kills'
                 /\ killChans[a] \in DOMAIN tasks'
                 /\ tasks'[killChans[a]] = tasks[killChans[a]]
                 /\ \A t \in DOMAIN tasks' \ DOMAIN tasks : tasks'[t].info.ID # a
        /\ \A b \in UrlIDs(pConfig') \ UrlIDs(pConfig) :
              Cardinality({t \in DOMAIN tasks' \ DOMAIN tasks : tasks'[t].info.ID = b}) = 1
    ]_vars

\* cache-b was started alone and cache-a was added by a later config that
\* left cache-b as it was
C11_Witness ==
    /\ started = 2
    /\ kills = {}
    /\ killChans["cache-b"] = 1
    /\ killChans["cache-a"] = 2
    /\ {1, 2} \subseteq DOMAIN tasks

\* C22: a probe task has at most one request outstanding.  A task begins a
\* request (takes a new pollID) only at its select with no poll of its own
\* unfinished, and once it has dispatched a result to the Handler the only
\* step it takes is the receipt of the Handler's completion signal, which
\* brings it back to the select without a request begun.
C22_OneOutstandingRequest ==
    [][\A t \in DOMAIN tasks \cap DOMAIN tasks' :
          /\ tasks'[t].pollID # tasks[t].pollID /\ tasks'[t].pollID # 0 =>
                /\ tasks[t].st = "select"
                /\ tasks[t].pollID = 0
                /\ tasks'[t].pollID = pollNum'
                /\ pollNum' = pollNum + 1
          /\ tasks[t].st = "handling" =>
                /\ t \in DOMAIN tasks'
                /\ \/ tasks'[t] = tasks[t]
                   \/ /\ tasks'[t] = [tasks[t] EXCEPT !.st = "select", !.pollID = 0]
                      /\ pollNum' = pollNum
                      /\ received' = received
    ]_vars

\* a task is in its second request, after the Handler has signalled the
\* completion of its first
C22_Witness ==
    \E t \in DOMAIN tasks :
        /\ tasks[t].st = "polling"
        /\ \E i \in 1..Len(received) :
              received[i].task = t /\ received[i].pollID < tasks[t].pollID

\* the tasks that have begun a request whose Handler has not signalled yet
Outstanding(ts) == {t \in DOMAIN ts : ts[t].st \in {"polling", "handling"}}

\* C23: when a config replaces a probe ID, the old task of the ID begins no
\* request once the new task of the ID has been started, and two tasks of
\* one ID never have a request outstanding at the same time.
C23_ReplacedTaskIssuesNoRequest ==
    [][/\ \A t \in DOMAIN tasks \cap DOMAIN tasks' :
             tasks'[t].pollID # tasks[t].pollID /\ tasks'[t].pollID # 0 =>
                 killChans[tasks[t].info.ID] \in {0, t}
       /\ \A t, u \in Outstanding(tasks') :
             tasks'[t].info.ID = tasks'[u].info.ID => t = u
    ]_vars

\* C24: a task leaves the engine only by receiving its kill at the select,
\* which completes the write to the cancel signal; that step begins no
\* request, and the task, being gone, begins none afterwards (its number is
\* never used again).  Every write to a cancel signal completes in the end:
\* whenever writes are waiting, a state follows in which none is.
C24_KillEndsTask ==
    /\ [][/\ \A t \in DOMAIN tasks \ DOMAIN tasks' :
                /\ tasks[t].st = "select"
                /\ t \in kills /\ t \notin kills'
                /\ pollNum' = pollNum /\ received' = received
          /\ \A t \in DOMAIN tasks' \ DOMAIN tasks : t > started
          /\ \A t \in kills \ kills' : t \notin DOMAIN tasks'
          /\ started' >= started
         ]_vars
    /\ (kills # {}) ~> (kills = {})

\* a task has received its kill while it was between two requests of its own
C24_Witness ==
    \E i \in 1..Len(received) :
        /\ received[i].task \notin DOMAIN tasks
        /\ received[i].task \notin kills

(***************************************************************************)
(* Enroller: specification and properties.                                 *)
(***************************************************************************)
InitEnroller ==
    /\ IdleAgent
    /\ IdleHealth
    /\ IdlePoller
    /\ IdleEnroller
    /\ IdleMonitorConfig
    /\ IdleCombiner
    /\ IdleRemap

NextEnroller ==
    \/ \E t \in DocTypes : CreateFile(t) /\ UNCHANGED nonEnrollerVars
    \/ \E t \in DocTypes : WriteContent(t) /\ UNCHANGED nonEnrollerVars
    \/ \E t \in DocTypes : WatchEvent(t) /\ UNCHANGED nonEnrollerVars
    \/ \E t \in DocTypes : HandleFunc(t) /\ UNCHANGED nonEnrollerVars

SpecEnroller == InitEnroller /\ [][NextEnroller]_vars

\* C7: for every document type a document submitted again leaves one entity
\* in Ops, and a submission whose create is answered "already exists" ends
\* as success: the handler returns no error and a watched file is not
\* renamed .rejected.
C7_IdempotentForEveryType ==
    \A t \in DocTypes :
        /\ entities[t] <= 1
        /\ \A i \in 1..Len(outcomes[t]) :
              outcomes[t][i].exists =>
                  ~outcomes[t][i].err /\ outcomes[t][i].suffix # ".rejected"

\* the loader fills the watched directories of a running enroller
NextLoader ==
    \/ LoadFile /\ UNCHANGED nonEnrollerVars
    \/ \E t \in DocTypes : WriteContent(t) /\ UNCHANGED nonEnrollerVars
    \/ \E t \in DocTypes : WatchEvent(t) /\ UNCHANGED nonEnrollerVars

SpecLoader == InitEnroller /\ [][NextLoader]_vars

\* a running enroller is given documents with references and the documents
\* they refer to, by the loader, by other writers and by clients; the
\* servers and the delivery service may be in Ops already
InitReferences ==
    /\ IdleAgent
    /\ IdleHealth
    /\ IdlePoller
    /\ IdleMonitorConfig
    /\ IdleCombiner
    /\ IdleRemap
    /\ IdleFrontEnds
    /\ \E inOps \in SUBSET {"servers", "deliveryservices"} :
          entities = [t \in RefTypes |-> IF t \in inOps THEN 1 ELSE 0]
    /\ dirFiles = [t \in RefTypes |-> NoFiles]
    /\ emptyCount = [t \in RefTypes |-> 0]
    /\ outcomes = [t \in RefTypes |-> <<>>]
    /\ submissions = 0
    /\ events = <<>>

NextReferences ==
    \/ LoadReferences /\ UNCHANGED nonEnrollerVars
    \/ \E t \in RefTypes : CreateFile(t) /\ UNCHANGED nonEnrollerVars
    \/ \E t \in RefTypes : WriteContent(t) /\ UNCHANGED nonEnrollerVars
    \/ \E t \in RefTypes : WatchEvent(t) /\ UNCHANGED nonEnrollerVars
    \/ \E t \in RefTypes : HandleFunc(t) /\ UNCHANGED nonEnrollerVars

SpecReferences == InitReferences /\ [][NextReferences]_vars

InitFrontEnds ==
    /\ IdleAgent
    /\ IdleHealth
    /\ IdlePoller
    /\ IdleDocuments
    /\ IdleMonitorConfig
    /\ IdleCombiner
    /\ IdleRemap
    /\ StartFrontEnds

NextFrontEnds ==
    \/ startServer /\ UNCHANGED nonEnrollerVars
    \/ ListenAndServe /\ UNCHANGED nonEnrollerVars
    \/ startWatching /\ UNCHANGED nonEnrollerVars
    \/ CreateStartedFile /\ UNCHANGED nonEnrollerVars
    \/ \E t \in DocTypes : WatcherCall(t) /\ UNCHANGED nonEnrollerVars
    \/ \E t \in DocTypes : ServeHTTP(t) /\ UNCHANGED nonEnrollerVars
    \/ \E a \in active : HandlerReturns(a) /\ UNCHANGED nonEnrollerVars

SpecFrontEnds == InitFrontEnds /\ [][NextFrontEnds]_vars

\* C37, as stated: no two handler calls for documents of one type are
\* running at the same time, whichever front-end each came through.
C37_OneHandlerPerType ==
    \A a, b \in active : a # b => a.type # b.type

\* C38, as stated: a request to the endpoint of a type runs the dispatcher
\* entry of that type, which is the entry the watcher runs for a file in the
\* directory of the type.
C38_EndpointRunsItsEntry ==
    \A a \in active : a.handler = a.type

\* C40, as stated: when the started file exists, every front-end the command
\* line asks for is accepting: the server is listening if -http is set, and
\* the watcher has been given every type directory if -dir is set.
C40_StartedFileOnlyWhenAccepting ==
    startedFile =>
        /\ flags.http => server = "listening"
        /\ flags.dir => watched = DocTypes

\* u comes before t in the order of the loader
LoadedBefore(u, t) ==
    \E i, j \in 1..Len(LoadOrder) : i < j /\ LoadOrder[i] = u /\ LoadOrder[j] = t

C16_EmptyFileRetriedUpToTen ==
    [][\A t \in DocTypes :
          /\ dirFiles[t].pending = "empty" /\ WatchEvent(t) =>
                /\ emptyCount'[t] = emptyCount[t] + 1
                /\ entities'[t] = entities[t] /\ outcomes'[t] = outcomes[t]
                /\ IF emptyCount'[t] < maxEmptyTries
                   THEN /\ dirFiles'[t] = dirFiles[t]
                        /\ t \in {events'[i] : i \in 1..Len(events')}
                   ELSE /\ dirFiles'[t].pending = "none" /\ dirFiles'[t].rejected
                        /\ t \notin {events'[i] : i \in 1..Len(events')}
          /\ dirFiles[t].pending = "none" /\ dirFiles'[t].pending # "none" =>
                submissions' = submissions + 1
    ]_vars

(***************************************************************************)
(* Monitor config poller: specification and properties.                    *)
(***************************************************************************)
InitMonitorConfig ==
    /\ IdleAgent
    /\ IdleHealth
    /\ IdlePoller
    /\ IdleEnroller
    /\ StartMonitorConfig
    /\ IdleCombiner
    /\ IdleRemap

NextMonitorConfig ==
    \/ ReceiveOpsConfig /\ UNCHANGED nonMonitorConfigVars
    \/ ReceiveSession /\ UNCHANGED nonMonitorConfigVars
    \/ FetchConfig /\ UNCHANGED nonMonitorConfigVars
    \/ writeConfig /\ UNCHANGED nonMonitorConfigVars
    \/ ReadConfig /\ UNCHANGED nonMonitorConfigVars

SpecMonitorConfig == InitMonitorConfig /\ [][NextMonitorConfig]_vars

\* C13: writeConfig never waits for a reader: whatever the channel holds
\* and whatever the reader has done, the running writeConfig can take its
\* next step, and it returns at the latest in the pass after the one that
\* discarded an unread config.
C13_WriteNeverBlocks ==
    writing # 0 => ENABLED writeConfig /\ iterations <= 1

\* writeConfig has discarded an unread config
C13_Witness == returned # 0 /\ writing = 0 /\ iterations = 1

\* C14: the channel holds at most one config, and after writeConfig(c) has
\* returned the next config a reader receives is c or a config published
\* after c.
C14_ReaderSeesFreshest ==
    /\ Len(ConfigChannel) <= 1
    /\ \A i \in 1..Len(ConfigChannel) : ConfigChannel[i] >= returned

\* a config was replaced unread and the reader received the one after it
C14_Witness == \E c \in dropped : lastRead = c + 1 /\ returned = lastRead


(***************************************************************************)
(* State combiner: specification and properties.                           *)
(***************************************************************************)
InitCombiner ==
    /\ IdleAgent
    /\ IdleHealth
    /\ IdlePoller
    /\ IdleEnroller
    /\ IdleMonitorConfig
    /\ IdleRemap
    /\ \E quorumMin \in 0..MaxPeers : StartCombiner(quorumMin)

NextCombiner ==
    \/ LocalResult /\ UNCHANGED nonCombinerVars
    \/ \E p \in PeerNames : PeerResult(p) /\ UNCHANGED nonCombinerVars
    \/ \E p \in PeerNames : PeerStale(p) /\ UNCHANGED nonCombinerVars

SpecCombiner == InitCombiner /\ [][NextCombiner]_vars

\* the local observation and every non-stale peer say isAvailable
Unanimous(isAvailable) ==
    /\ localStates = isAvailable
    /\ \A p \in NonStalePeers(peerStates) : (peerStates[p] = "available") = isAvailable

\* C18, as stated: for any number of non-stale peers, zero included, if the
\* local observation and all non-stale peers agree on a value, the combined
\* availability is that value.
C18_UnanimousIsCombined ==
    \A isAvailable \in BOOLEAN : Unanimous(isAvailable) => combinedStates = isAvailable

\* C18, amended: if the local observation and all non-stale peers agree on
\* unavailable, the combined availability is unavailable; if they agree on
\* available and at least PeerOptimisticQuorumMin peers are non-stale, it is
\* available.
C18_UnanimousWithQuorumIsCombined ==
    /\ Unanimous(FALSE) => ~combinedStates
    /\ Unanimous(TRUE) /\ Cardinality(NonStalePeers(peerStates)) >= PeerOptimisticQuorumMin
           => combinedStates

\* agreement on available among the local observation and exactly as many
\* peers as the quorum asks for
C18_Witness ==
    /\ Unanimous(TRUE)
    /\ PeerOptimisticQuorumMin > 0
    /\ Cardinality(NonStalePeers(peerStates)) = PeerOptimisticQuorumMin
    /\ \E p \in PeerNames : peerStates[p] = "stale"
    /\ combinedStates


(***************************************************************************)
(* remap.config overrides: specification and properties.                   *)
(***************************************************************************)
InitRemap ==
    /\ IdleAgent
    /\ IdleHealth
    /\ IdlePoller
    /\ IdleEnroller
    /\ IdleMonitorConfig
    /\ IdleCombiner
    /\ \E body \in RemapBodies : StartRemap(body)

NextRemap == processRemapOverrides /\ UNCHANGED nonRemapVars

SpecRemap == InitRemap /\ [][NextRemap]_vars

\* the lines of the processed remap.config
Emitted == {remapBody[k] : k \in 1..Len(remapBody)}

\* C19: for every rule behind the ##OVERRIDE## marker and every rule with
\* the same "from" that stands earlier in the file, the processed file has
\* the earlier line behind the ##OVERRIDDEN## prefix and no longer as a
\* rule, and has the overriding rule without the marker, right after a
\* ##OVERRIDE## comment line.
C19_OverrideMarksEarlierRule ==
    remapErr = "nil" =>
        \A j \in 1..Len(remapInput) : \A i \in 1..(j - 1) :
            /\ Len(remapInput[j]) = 4 /\ remapInput[j][1] = "##OVERRIDE##"
            /\ Len(remapInput[i]) = 3 /\ remapInput[i][2] = remapInput[j][3]
            => /\ (<<"##OVERRIDDEN##">> \o remapInput[i]) \in Emitted
               /\ remapInput[i] # Tail(remapInput[j]) => remapInput[i] \notin Emitted
               /\ \E k \in 2..Len(remapBody) :
                     /\ remapBody[k] = Tail(remapInput[j])
                     /\ remapBody[k - 1] = <<"##OVERRIDE##">>

====
